---- MODULE Spec2Model ----
(***************************************************************************)
(* A model of meshcore-cli-rs: the session state store (config.rs), the    *)
(* wait-for-event engine (commands/mod.rs), the foreground command         *)
(* handlers and the background listener of interactive mode.               *)
(***************************************************************************)
EXTENDS Integers, Sequences, FiniteSets, TLC

VARIABLES
    state,      \* the SessionState behind ctx.state (config.rs:110-134)
    pre,        \* SpecState: the SessionState before the last operation
    lastOp,     \* SpecState: the last SessionState operation and its arguments
    opCount,    \* SpecState: number of operations applied so far
    pc,         \* position of the foreground task ("fg") and of the listener ("bg")
    stateLock,  \* holder of the ctx.state mutex: "free", "fg" or "bg"
    clientLock, \* holder of the ctx.client mutex: "free", "fg" or "bg"
    streamOpen, \* whether the device's event stream is still open
    produced,   \* the events the device has produced, in production order
    subs,       \* the subscriptions: [live, queue of indices into produced]
    since,      \* per task: Len(produced) when its subscription was created
    got,        \* per task: the indices its subscription has handed to it
    fg,         \* locals of the foreground command in progress
    bg,         \* locals of the listener: the event being handled
    waitRes,    \* outcome of the last wait_for_event call
    cmdRes,     \* Result of the last foreground command
    cmds,       \* number of foreground commands started
    committed,  \* the contact pair after the last whole set_contact/swap_contacts
    promptSeen, \* the contact pair build_prompt read last
    calc        \* function-level specifications: the call evaluated and its result

stateVars == <<pre, lastOp, opCount, calc>>

concVars == <<pc, stateLock, clientLock, streamOpen, produced, subs, since, got,
              fg, bg, waitRes, cmdRes, cmds, committed, promptSeen>>

vars == <<state, pre, lastOp, opCount, pc, stateLock, clientLock, streamOpen,
          produced, subs, since, got, fg, bg, waitRes, cmdRes, cmds, committed,
          promptSeen, calc>>

\* Everything but `calc`: what an evaluation of a pure function leaves alone.
sessionVars == <<state, pre, lastOp, opCount, concVars>>

(***************************************************************************)
(* Bounds and value domains                                                *)
(***************************************************************************)
MaxOps == 2
\* The device events and user commands of one run, counted together.
MaxInputs == 3

\* Option::None
None == "<none>"

Names == {"Alice", "Bob"}
OptNames == Names \cup {None}
Keys == {"k1", "k2"}
TimeoutValues == {60}

\* A full Contact record as carried by NewContactAdvert (meshcore::types::Contact);
\* only the fields the session state reads are kept.
Contact(key, name) == [public_key |-> key, name |-> name]

\* Option<Contact>::None (a record, so that it compares with a Contact).
NoContact == [public_key |-> None, name |-> None]

\* The contacts that can be advertised: one per key.
AdvertContacts == {Contact("k1", "Alice"), Contact("k2", "Bob")}

(***************************************************************************)
(* HashMap helpers                                                         *)
(***************************************************************************)
EmptyMap == [x \in {} |-> None]

MapInsert(m, k, v) == [x \in (DOMAIN m) \cup {k} |-> IF x = k THEN v ELSE m[x]]

MapRemove(m, k) == [x \in (DOMAIN m) \ {k} |-> m[x]]

(***************************************************************************)
(* SessionState (config.rs)                                                *)
(***************************************************************************)
\* SessionState::new(): every field is its Default.
SessionState_new ==
    [ device_name      |-> None,
      current_contact  |-> None,
      previous_contact |-> None,
      last_sender      |-> None,
      logged_in        |-> EmptyMap,
      pending_contacts |-> EmptyMap,
      flood_scope      |-> None,
      contact_timeouts |-> EmptyMap ]

PendingContact(key, name, contact) ==
    [public_key |-> key, name |-> name, contact |-> contact]

\* config.rs:159  self.previous_contact = self.current_contact.take();
set_contact_take(s) ==
    [s EXCEPT !.previous_contact = s.current_contact, !.current_contact = None]

\* config.rs:160  self.current_contact = contact;
set_contact_store(s, contact) == [s EXCEPT !.current_contact = contact]

set_contact_always(s, contact) == set_contact_store(set_contact_take(s), contact)

set_contact_noprev(s, contact) == set_contact_store(s, contact)

\* config.rs:157-162
set_contact(s, contact) ==
    IF s.current_contact # contact
    THEN set_contact_store(set_contact_take(s), contact)
    ELSE s

\* std::mem::swap, first half: current_contact receives previous_contact
\* (the old current_contact is held in a temporary).
swap_first(s) == [s EXCEPT !.current_contact = s.previous_contact]

\* std::mem::swap, second half: previous_contact receives the temporary.
swap_second(s, tmp) == [s EXCEPT !.previous_contact = tmp]

swap_contacts_copy(s) == [s EXCEPT !.current_contact = s.previous_contact]

\* config.rs:165-167
swap_contacts(s) == swap_second(swap_first(s), s.current_contact)

\* config.rs:171-173
is_logged_in(s, name) ==
    IF name \in DOMAIN s.logged_in THEN s.logged_in[name] ELSE FALSE

\* config.rs:176-178
set_logged_in(s, name, logged_in) ==
    [s EXCEPT !.logged_in = MapInsert(s.logged_in, name, logged_in)]

\* config.rs:181-190: the entry is replaced by one whose contact is None.
add_pending(s, public_key, name) ==
    [s EXCEPT !.pending_contacts =
        MapInsert(s.pending_contacts, public_key,
                  PendingContact(public_key, name, NoContact))]

\* config.rs:193-203
add_pending_contact(s, contact) ==
    [s EXCEPT !.pending_contacts =
        MapInsert(s.pending_contacts, contact.public_key,
                  PendingContact(contact.public_key, contact.name, contact))]

\* config.rs:206-208
clear_pending(s) == [s EXCEPT !.pending_contacts = EmptyMap]

ContactPair(s) == <<s.current_contact, s.previous_contact>>

\* config.rs:212-217
get_timeout(s, contact, default) ==
    IF contact \in DOMAIN s.contact_timeouts
    THEN s.contact_timeouts[contact]
    ELSE default

\* contacts.rs:90  state.contact_timeouts.insert(name, timeout)
timeout_insert(s, contact, timeout) ==
    [s EXCEPT !.contact_timeouts = MapInsert(s.contact_timeouts, contact, timeout)]

(***************************************************************************)
(* Events, filters and the cached contact directory                        *)
(***************************************************************************)
Tasks == {"fg", "bg"}

Event(kind, arg) == [kind |-> kind, arg |-> arg]

\* The notifications the device can produce (meshcore::event::Event).
DeviceEvents ==
    { Event("Ack", "a1"),
      Event("ContactMessage", "k1"),
      Event("Advertisement", "k1"),
      Event("NewContactAdvert", "k1"),
      Event("LoginSuccess", None),
      Event("LoginFailed", None) }

\* EventFilter::packet_types(vec![PacketType::Ack])
AckFilter == {"Ack"}

\* EventFilter::packet_types(vec![LoginSuccess, LoginFailed])
LoginFilter == {"LoginSuccess", "LoginFailed"}

NoFilter == {}

filter_matches_any(filter, event) == TRUE

\* mod.rs:109  filter.matches(&event)
filter_matches(filter, event) == event.kind \in filter

\* client.contacts(): the cached directory, keyed by public key.
Directory == {Contact("k1", "Alice"), Contact("k2", "Bob")}

\* The Contact a NewContactAdvert for `key` carries.
AdvertContactOf(key) == CHOOSE c \in AdvertContacts : c.public_key = key

\* str::to_ascii_lowercase / to_lowercase on the identifiers that occur.
AsciiLower(x) ==
    CASE x \in {"Alice", "alice", "ALICE"} -> "alice"
      [] x \in {"Bob", "bob", "BOB"} -> "bob"
      [] x \in {"Zed", "zed"} -> "zed"
      [] x \in {"K", "k"} -> "k"
      [] x \in {"K1", "k1"} -> "k1"
      [] x \in {"K2", "k2"} -> "k2"
      [] OTHER -> x

eq_ignore_ascii_case(a, b) == AsciiLower(a) = AsciiLower(b)

\* String::starts_with on the hex keys that occur ("k" is the common prefix
\* of the keys, "" a prefix of everything).
starts_with(x, prefix) ==
    prefix = x \/ prefix = "" \/ (prefix = "k" /\ x \in Keys)

get_contact_key_first(contacts, name_or_key) ==
    LET byName == {c \in contacts : eq_ignore_ascii_case(c.name, name_or_key)}
        byKey  == {c \in contacts :
                      starts_with(c.public_key, AsciiLower(name_or_key))}
    IN  IF byKey # {} THEN byKey ELSE byName

\* mod.rs:73-95 over a directory snapshot: the contacts get_contact may return
\* for an identifier (the directory is a HashMap, so any matching entry may be
\* found first); the empty set stands for Err(ContactNotFound).
get_contact_in(contacts, name_or_key) ==
    LET byName == {c \in contacts : eq_ignore_ascii_case(c.name, name_or_key)}
        byKey  == {c \in contacts :
                      starts_with(c.public_key, AsciiLower(name_or_key))}
    IN  IF byName # {} THEN byName ELSE byKey

\* mod.rs:73-95 over the directory of the interactive session.
get_contact(name_or_key) == get_contact_in(Directory, name_or_key)

\* mod.rs:174-183: the names lookup_sender_name may return.
lookup_sender_name(sender_prefix) ==
    LET found == {c \in Directory : starts_with(c.public_key, sender_prefix)}
    IN  IF found # {} THEN {c.name : c \in found} ELSE {sender_prefix}

(***************************************************************************)
(* Subscriptions (meshcore's broadcast of the event stream)                *)
(***************************************************************************)
NoSub == [live |-> FALSE, queue |-> <<>>]

NewSubscription == [live |-> TRUE, queue |-> <<>>]

\* The subscription a task's subscribe() call creates: one of its own.
OwnSub(t) == t

SharedSub(t) == "bg"

\* mod.rs:68-70 and interactive.rs:305: every consumer calls client.subscribe()
\* and reads the subscription that call returned.
SubOf(t) == OwnSub(t)

\* A subscription receives the events produced while it is live.
Deliver(q, i) == IF q.live THEN [q EXCEPT !.queue = Append(q.queue, i)] ELSE q

\* The device produces an event: it is handed to every live subscription.
Produce ==
    /\ streamOpen
    /\ Len(produced) + cmds < MaxInputs
    /\ \E e \in DeviceEvents : produced' = Append(produced, e)
    /\ subs' = [t \in Tasks |-> Deliver(subs[t], Len(produced) + 1)]
    /\ UNCHANGED <<state, stateVars, pc, stateLock, clientLock, streamOpen, since,
                   got, fg, bg, waitRes, cmdRes, cmds, committed, promptSeen>>

\* The device disconnects: the stream ends for every subscription.
CloseStream ==
    /\ streamOpen
    /\ streamOpen' = FALSE
    /\ UNCHANGED <<state, stateVars, pc, stateLock, clientLock, produced, subs,
                   since, got, fg, bg, waitRes, cmdRes, cmds, committed, promptSeen>>

\* Subscription::recv() has an event ready for task t.
RecvReady(t) == subs[SubOf(t)].queue # <<>>

\* Subscription::recv() returns None: nothing buffered and the stream is over.
RecvClosed(t) == subs[SubOf(t)].queue = <<>> /\ ~streamOpen

\* The index recv() returns.
RecvHead(t) == Head(subs[SubOf(t)].queue)

\* The subscriptions after task t took the head of its queue.
AfterRecv(t) == [subs EXCEPT ![SubOf(t)].queue = Tail(@)]

(***************************************************************************)
(* Foreground locals                                                       *)
(***************************************************************************)
FgIdle ==
    [ cmd |-> "none", arg |-> None, scope |-> None, wait |-> FALSE,
      v |-> None, tmp |-> None, contact |-> NoContact, filter |-> NoFilter,
      count |-> 0 ]

BgIdle == [ev |-> 0, name |-> None]

NoWait ==
    [tag |-> "none", ev |-> 0, inner |-> "none", filter |-> NoFilter, since |-> 0,
     shown |-> "none"]

\* No pure function is being evaluated.
NoCalc == [op |-> "none"]

InitConc ==
    /\ pc = [t \in Tasks |-> IF t = "fg" THEN "prompt" ELSE "recv"]
    /\ stateLock = "free"
    /\ clientLock = "free"
    /\ streamOpen = TRUE
    /\ produced = <<>>
    /\ subs = [t \in Tasks |-> IF t = "bg" THEN NewSubscription ELSE NoSub]
    /\ since = [t \in Tasks |-> 0]
    /\ got = [t \in Tasks |-> <<>>]
    /\ fg = FgIdle
    /\ bg = BgIdle
    /\ waitRes = NoWait
    /\ cmdRes = "none"
    /\ cmds = 0
    /\ committed = ContactPair(state)
    /\ promptSeen = <<None, None>>

\* The session as interactive mode finds it, for the function-level specifications.
InitSession ==
    /\ state = SessionState_new
    /\ pre = SessionState_new
    /\ lastOp = <<"new">>
    /\ opCount = 0
    /\ InitConc

(***************************************************************************)
(* The foreground task: prompt, command start and command end              *)
(***************************************************************************)
FgGoto(p) == pc' = [pc EXCEPT !["fg"] = p]

\* The command returns `res` to the REPL loop (interactive.rs:350-352).
FgDone(res) ==
    /\ FgGoto("prompt")
    /\ fg' = FgIdle
    /\ cmdRes' = res

\* interactive.rs:388-407: build_prompt reads the state under the lock.
BuildPrompt ==
    /\ pc["fg"] = "prompt"
    /\ stateLock = "free"
    /\ promptSeen' = ContactPair(state)
    /\ waitRes' = NoWait
    /\ cmdRes' = "none"
    /\ since' = [since EXCEPT !["fg"] = 0]
    /\ got' = [got EXCEPT !["fg"] = <<>>]
    /\ FgGoto("readline")
    /\ UNCHANGED <<state, stateVars, stateLock, clientLock, streamOpen, produced,
                   subs, fg, bg, cmds, committed>>

\* A line was read and names a command: the handler starts at position p.
FgStart(locals, p) ==
    /\ pc["fg"] = "readline"
    /\ Len(produced) + cmds < MaxInputs
    /\ cmds' = cmds + 1
    /\ fg' = locals
    /\ FgGoto(p)

(***************************************************************************)
(* wait_for_event (mod.rs:103-123)                                         *)
(***************************************************************************)
\* mod.rs:119-122: the future's outcome becomes the call's Result.
wait_for_event_result(inner) ==
    IF inner.tag = "Some"
    THEN [tag |-> "Ok", ev |-> inner.ev]
    ELSE [tag |-> "Timeout", ev |-> 0]

wait_ack_result_lenient(res) == "Ok"

\* messaging.rs:59-71: cmd_wait_ack's Result from wait_for_event's.
wait_ack_result(res) ==
    IF res.tag = "Ok"
    THEN IF produced[res.ev].kind = "Ack" THEN "Ok" ELSE "Timeout"
    ELSE res.tag

\* mod.rs:104  let mut subscription = self.subscribe().await;
WaitSubscribe ==
    /\ pc["fg"] = "wait_sub"
    /\ clientLock = "free"
    /\ subs' = [subs EXCEPT ![SubOf("fg")] = NewSubscription]
    /\ since' = [since EXCEPT !["fg"] = Len(produced)]
    /\ got' = [got EXCEPT !["fg"] = <<>>]
    /\ FgGoto("wait_recv")
    /\ UNCHANGED <<state, stateVars, stateLock, clientLock, streamOpen, produced,
                   fg, bg, waitRes, cmdRes, cmds, committed, promptSeen>>

login_succeeded_guess(res) ==
    res.tag # "Ok" \/ produced[res.ev].kind = "LoginSuccess"

\* repeater.rs:37-38: the wait returned Ok(Event::LoginSuccess).
login_succeeded(res) ==
    res.tag = "Ok" /\ produced[res.ev].kind = "LoginSuccess"

\* repeater.rs:37-50: what cmd_login prints for the wait's result.
login_report(res) ==
    CASE res.tag # "Ok" -> "warning: Login response timeout"
      [] produced[res.ev].kind = "LoginSuccess" -> "ok: Login success"
      [] produced[res.ev].kind = "LoginFailed" -> "error: Login failed"
      [] OTHER -> "none"

\* wait_for_event returns: the transient subscription is dropped and the caller
\* (cmd_wait_ack, messaging.rs:55-72; cmd_login, repeater.rs:37-50) continues.
WaitFinish(inner, subsAfter) ==
    LET res == wait_for_event_result(inner) IN
    /\ waitRes' = [tag |-> res.tag, ev |-> res.ev, inner |-> inner.tag,
                   filter |-> fg.filter, since |-> since["fg"],
                   shown |-> IF fg.cmd = "login" THEN login_report(res) ELSE "none"]
    /\ subs' = [subsAfter EXCEPT ![SubOf("fg")] = NoSub]
    /\ IF fg.cmd = "login"
       THEN IF login_succeeded(res)
            THEN FgGoto("login_set") /\ UNCHANGED <<fg, cmdRes>>
            ELSE FgDone("Ok")
       ELSE FgDone(wait_ack_result(res))

\* mod.rs:108-111: an event arrives; a match ends the wait, anything else is
\* discarded and the loop goes on.
WaitRecv ==
    /\ pc["fg"] = "wait_recv"
    /\ RecvReady("fg")
    /\ LET i == RecvHead("fg") IN
       /\ got' = [got EXCEPT !["fg"] = Append(@, i)]
       /\ IF filter_matches(fg.filter, produced[i])
          THEN WaitFinish([tag |-> "Some", ev |-> i], AfterRecv("fg"))
          ELSE /\ subs' = AfterRecv("fg")
               /\ UNCHANGED <<pc, fg, waitRes, cmdRes>>
    /\ UNCHANGED <<state, stateVars, stateLock, clientLock, streamOpen, produced,
                   since, bg, cmds, committed, promptSeen>>

\* mod.rs:112-114: recv() returned None, the stream is closed.
WaitClosed ==
    /\ pc["fg"] = "wait_recv"
    /\ RecvClosed("fg")
    /\ WaitFinish([tag |-> "None", ev |-> 0], subs)
    /\ UNCHANGED <<state, stateVars, stateLock, clientLock, streamOpen, produced,
                   since, got, bg, cmds, committed, promptSeen>>

\* mod.rs:106,117: tokio::time::timeout elapses while recv() is pending.
WaitTimeout ==
    /\ pc["fg"] = "wait_recv"
    /\ ~RecvReady("fg")
    /\ WaitFinish([tag |-> "Elapsed", ev |-> 0], subs)
    /\ UNCHANGED <<state, stateVars, stateLock, clientLock, streamOpen, produced,
                   since, got, bg, cmds, committed, promptSeen>>

\* messaging.rs:55-58: cmd_wait_ack
StartWaitAck ==
    /\ FgStart([FgIdle EXCEPT !.cmd = "wait_ack", !.filter = AckFilter], "wait_sub")
    /\ UNCHANGED <<state, stateVars, stateLock, clientLock, streamOpen, produced,
                   subs, since, got, bg, waitRes, cmdRes, committed, promptSeen>>

(***************************************************************************)
(* The background listener (interactive.rs:304-323, 829-905)               *)
(***************************************************************************)
BgGoto(p) == pc' = [pc EXCEPT !["bg"] = p]

\* The state update handle_background_event makes for an event.
handle_background_event(s, event, sender_name) ==
    CASE event.kind = "ContactMessage" -> [s EXCEPT !.last_sender = sender_name]
      [] event.kind = "Advertisement" -> add_pending(s, event.arg, None)
      [] event.kind = "NewContactAdvert" ->
            add_pending_contact(s, AdvertContactOf(event.arg))
      [] OTHER -> s

\* interactive.rs:314-316: the listener takes the next event of its subscription.
BgRecv ==
    /\ pc["bg"] = "recv"
    /\ RecvReady("bg")
    /\ LET i == RecvHead("bg") IN
       /\ got' = [got EXCEPT !["bg"] = Append(@, i)]
       /\ subs' = AfterRecv("bg")
       /\ IF produced[i].kind = "ContactMessage"
          THEN BgGoto("bg_lookup") /\ bg' = [ev |-> i, name |-> None]
          ELSE IF produced[i].kind \in {"Advertisement", "NewContactAdvert"}
          THEN BgGoto("bg_state") /\ bg' = [ev |-> i, name |-> None]
          ELSE UNCHANGED <<pc, bg>>
    /\ UNCHANGED <<state, stateVars, stateLock, clientLock, streamOpen, produced,
                   since, fg, waitRes, cmdRes, cmds, committed, promptSeen>>

\* interactive.rs:841-842: the sender's name is looked up under the client lock.
BgLookup ==
    /\ pc["bg"] = "bg_lookup"
    /\ clientLock = "free"
    /\ \E n \in lookup_sender_name(produced[bg.ev].arg) : bg' = [bg EXCEPT !.name = n]
    /\ BgGoto("bg_state")
    /\ UNCHANGED <<state, stateVars, stateLock, clientLock, streamOpen, produced,
                   subs, since, got, fg, waitRes, cmdRes, cmds, committed, promptSeen>>

\* interactive.rs:850-851, 874-875, 889-890: the state is updated under its lock.
BgUpdate ==
    /\ pc["bg"] = "bg_state"
    /\ stateLock = "free"
    /\ state' = handle_background_event(state, produced[bg.ev], bg.name)
    /\ bg' = BgIdle
    /\ BgGoto("recv")
    /\ UNCHANGED <<stateVars, stateLock, clientLock, streamOpen, produced, subs,
                   since, got, fg, waitRes, cmdRes, cmds, committed, promptSeen>>

\* interactive.rs:317-319: recv() returned None, the listener ends.
BgClosed ==
    /\ pc["bg"] = "recv"
    /\ RecvClosed("bg")
    /\ subs' = [subs EXCEPT !["bg"] = NoSub]
    /\ BgGoto("exit")
    /\ UNCHANGED <<state, stateVars, stateLock, clientLock, streamOpen, produced,
                   since, got, fg, bg, waitRes, cmdRes, cmds, committed, promptSeen>>

(***************************************************************************)
(* The `to` command (interactive.rs:417-451)                               *)
(***************************************************************************)
\* The `to <name>[%scope]` lines entered: <<name, scope>>.
ToTargets == {<<"alice", None>>, <<"Bob", "s1">>, <<"zed", None>>}
MsgIds == {"Bob", "zed"}
LoginIds == {"alice"}
PendingIds == {"k1", "alice"}

\* interactive.rs:446-448
to_scope(s, scope) == IF scope # None THEN [s EXCEPT !.flood_scope = scope] ELSE s

\* interactive.rs:419-423: `to /` locks the state and calls set_contact(None).
StartToRoot ==
    /\ stateLock = "free"
    /\ stateLock' = "fg"
    /\ FgStart([FgIdle EXCEPT !.cmd = "to", !.arg = "/", !.v = None], "to_set")
    /\ UNCHANGED <<state, stateVars, clientLock, streamOpen, produced, subs, since,
                   got, bg, waitRes, cmdRes, committed, promptSeen>>

\* interactive.rs:427-431: `to !` calls set_contact(last_sender) when there is one.
StartToLast ==
    /\ stateLock = "free"
    /\ IF state.last_sender # None
       THEN /\ stateLock' = "fg"
            /\ FgStart([FgIdle EXCEPT !.cmd = "to", !.arg = "!",
                                      !.v = state.last_sender], "to_set")
            /\ UNCHANGED cmdRes
       ELSE /\ pc["fg"] = "readline"
            /\ Len(produced) + cmds < MaxInputs
            /\ cmds' = cmds + 1
            /\ FgDone("Ok")
            /\ UNCHANGED stateLock
    /\ UNCHANGED <<state, stateVars, clientLock, streamOpen, produced, subs, since,
                   got, bg, waitRes, committed, promptSeen>>

\* interactive.rs:419,424-426: `to ..` locks the state and calls swap_contacts.
StartToSwap ==
    /\ stateLock = "free"
    /\ stateLock' = "fg"
    /\ FgStart([FgIdle EXCEPT !.cmd = "to", !.arg = ".."], "swap_set")
    /\ UNCHANGED <<state, stateVars, clientLock, streamOpen, produced, subs, since,
                   got, bg, waitRes, cmdRes, committed, promptSeen>>

\* interactive.rs:419,432-441: `to <name>[%scope]` drops the lock to resolve.
StartToName ==
    /\ stateLock = "free"
    /\ \E t \in ToTargets :
          FgStart([FgIdle EXCEPT !.cmd = "to", !.arg = t[1], !.scope = t[2]],
                  "to_resolve")
    /\ UNCHANGED <<state, stateVars, stateLock, clientLock, streamOpen, produced,
                   subs, since, got, bg, waitRes, cmdRes, committed, promptSeen>>

\* The get_contact(name).await? that opens `to <name>`, cmd_msg and cmd_login
\* (interactive.rs:442, messaging.rs:20, repeater.rs:14).
FgResolve ==
    /\ pc["fg"] \in {"to_resolve", "msg_resolve", "login_resolve"}
    /\ clientLock = "free"
    /\ IF get_contact(fg.arg) = {}
       THEN FgDone("ContactNotFound")
       ELSE /\ \E c \in get_contact(fg.arg) :
                  fg' = [fg EXCEPT !.contact = c, !.v = c.name]
            /\ FgGoto(CASE pc["fg"] = "to_resolve" -> "to_relock"
                        [] pc["fg"] = "msg_resolve" -> "msg_send"
                        [] pc["fg"] = "login_resolve" -> "login_send")
            /\ UNCHANGED cmdRes
    /\ UNCHANGED <<state, stateVars, stateLock, clientLock, streamOpen, produced,
                   subs, since, got, bg, waitRes, cmds, committed, promptSeen>>

\* interactive.rs:443  let mut state = ctx.state.lock().await;
ToRelock ==
    /\ pc["fg"] = "to_relock"
    /\ stateLock = "free"
    /\ stateLock' = "fg"
    /\ FgGoto("to_set")
    /\ UNCHANGED <<state, stateVars, clientLock, streamOpen, produced, subs, since,
                   got, fg, bg, waitRes, cmdRes, cmds, committed, promptSeen>>

\* The end of the `to` handler: the guard is dropped with the new state s.
ToFinish(s) ==
    /\ state' = s
    /\ committed' = ContactPair(s)
    /\ stateLock' = "free"
    /\ FgDone("Ok")

SetContactTake_unlocked ==
    /\ pc["fg"] = "to_set"
    /\ IF state.current_contact # fg.v
       THEN /\ state' = set_contact_take(state)
            /\ stateLock' = "free"
            /\ FgGoto("to_half")
            /\ UNCHANGED <<fg, cmdRes, committed>>
       ELSE ToFinish(to_scope(state, fg.scope))
    /\ UNCHANGED <<stateVars, clientLock, streamOpen, produced, subs, since, got,
                   bg, waitRes, cmds, promptSeen>>

\* config.rs:158-159: set_contact compares and moves current into previous.
SetContactTake ==
    /\ pc["fg"] = "to_set"
    /\ IF state.current_contact # fg.v
       THEN /\ state' = set_contact_take(state)
            /\ FgGoto("to_half")
            /\ UNCHANGED <<stateLock, fg, cmdRes, committed>>
       ELSE ToFinish(to_scope(state, fg.scope))
    /\ UNCHANGED <<stateVars, clientLock, streamOpen, produced, subs, since, got,
                   bg, waitRes, cmds, promptSeen>>

\* config.rs:160 and interactive.rs:446-450: current is stored, the scope suffix
\* is recorded and the guard is dropped.
SetContactStore ==
    /\ pc["fg"] = "to_half"
    /\ ToFinish(to_scope(set_contact_store(state, fg.v), fg.scope))
    /\ UNCHANGED <<stateVars, clientLock, streamOpen, produced, subs, since, got,
                   bg, waitRes, cmds, promptSeen>>

\* config.rs:166, first half of std::mem::swap.
SwapFirst ==
    /\ pc["fg"] = "swap_set"
    /\ state' = swap_first(state)
    /\ fg' = [fg EXCEPT !.tmp = state.current_contact]
    /\ FgGoto("swap_half")
    /\ UNCHANGED <<stateVars, stateLock, clientLock, streamOpen, produced, subs,
                   since, got, bg, waitRes, cmdRes, cmds, committed, promptSeen>>

\* config.rs:166, second half of std::mem::swap; the guard is dropped.
SwapSecond ==
    /\ pc["fg"] = "swap_half"
    /\ ToFinish(swap_second(state, fg.tmp))
    /\ UNCHANGED <<stateVars, clientLock, streamOpen, produced, subs, since, got,
                   bg, waitRes, cmds, promptSeen>>

(***************************************************************************)
(* Device calls: self.commands().await.<op>(..).await (mod.rs:49-65)       *)
(***************************************************************************)
DevicePcs == {"msg_inflight", "login_inflight", "ap_inflight"}
WaitPcs == {"wait_sub", "wait_recv"}

\* The client lock is taken by commands() and the request is sent.
FgSend ==
    /\ pc["fg"] \in {"msg_send", "login_send", "ap_send"}
    /\ clientLock = "free"
    /\ clientLock' = "fg"
    /\ FgGoto(CASE pc["fg"] = "msg_send" -> "msg_inflight"
                [] pc["fg"] = "login_send" -> "login_inflight"
                [] pc["fg"] = "ap_send" -> "ap_inflight")
    /\ UNCHANGED <<state, stateVars, stateLock, streamOpen, produced, subs, since,
                   got, fg, bg, waitRes, cmdRes, cmds, committed, promptSeen>>

\* What a send_message / send_login call can return.
SendOutcomes == {"MessageSent", "Error", "Err"}

(***************************************************************************)
(* cmd_msg (messaging.rs:13-52)                                            *)
(***************************************************************************)
StartMsg ==
    /\ \E id \in MsgIds, w \in BOOLEAN :
          FgStart([FgIdle EXCEPT !.cmd = "msg", !.arg = id, !.wait = w], "msg_resolve")
    /\ UNCHANGED <<state, stateVars, stateLock, clientLock, streamOpen, produced,
                   subs, since, got, bg, waitRes, cmdRes, committed, promptSeen>>

\* messaging.rs:24-44: send_message returns.
MsgReturn ==
    /\ pc["fg"] = "msg_inflight"
    /\ clientLock' = "free"
    /\ \E out \in SendOutcomes :
          CASE out = "MessageSent" -> FgGoto("msg_record") /\ UNCHANGED <<fg, cmdRes>>
            [] out = "Error" -> FgDone("Command")
            [] out = "Err" -> FgDone("Connection")
    /\ UNCHANGED <<state, stateVars, stateLock, streamOpen, produced, subs, since,
                   got, bg, waitRes, cmds, committed, promptSeen>>

\* messaging.rs:35-39,47-51: last_sender is recorded; with `wait` the handler
\* goes on to cmd_wait_ack.
MsgRecord ==
    /\ pc["fg"] = "msg_record"
    /\ stateLock = "free"
    /\ state' = [state EXCEPT !.last_sender = fg.contact.name]
    /\ IF fg.wait
       THEN /\ fg' = [fg EXCEPT !.filter = AckFilter]
            /\ FgGoto("wait_sub")
            /\ UNCHANGED cmdRes
       ELSE FgDone("Ok")
    /\ UNCHANGED <<stateVars, stateLock, clientLock, streamOpen, produced, subs,
                   since, got, bg, waitRes, cmds, committed, promptSeen>>

(***************************************************************************)
(* cmd_login (repeater.rs:13-59)                                           *)
(***************************************************************************)
DefaultLoginTimeout == 30

StartLogin ==
    /\ \E id \in LoginIds :
          FgStart([FgIdle EXCEPT !.cmd = "login", !.arg = id], "login_resolve")
    /\ UNCHANGED <<state, stateVars, stateLock, clientLock, streamOpen, produced,
                   subs, since, got, bg, waitRes, cmdRes, committed, promptSeen>>

\* repeater.rs:16-35,52-56: send_login returns; on MessageSent the timeout is
\* read from the state.
LoginReturn ==
    /\ pc["fg"] = "login_inflight"
    /\ clientLock' = "free"
    /\ \E out \in SendOutcomes :
          CASE out = "MessageSent" -> FgGoto("login_timeout") /\ UNCHANGED <<fg, cmdRes>>
            [] out = "Error" -> FgDone("Command")
            [] out = "Err" -> FgDone("Connection")
    /\ UNCHANGED <<state, stateVars, stateLock, streamOpen, produced, subs, since,
                   got, bg, waitRes, cmds, committed, promptSeen>>

\* repeater.rs:30-35: the filter is built and get_timeout is read under the lock.
LoginTimeout ==
    /\ pc["fg"] = "login_timeout"
    /\ stateLock = "free"
    /\ get_timeout(state, fg.contact.name, DefaultLoginTimeout) > 0
    /\ fg' = [fg EXCEPT !.filter = LoginFilter]
    /\ FgGoto("wait_sub")
    /\ UNCHANGED <<state, stateVars, stateLock, clientLock, streamOpen, produced,
                   subs, since, got, bg, waitRes, cmdRes, cmds, committed, promptSeen>>

\* repeater.rs:38-42: LoginSuccess was received.
LoginSet ==
    /\ pc["fg"] = "login_set"
    /\ stateLock = "free"
    /\ state' = set_logged_in(state, fg.contact.name, TRUE)
    /\ FgDone("Ok")
    /\ UNCHANGED <<stateVars, stateLock, clientLock, streamOpen, produced, subs,
                   since, got, bg, waitRes, cmds, committed, promptSeen>>

(***************************************************************************)
(* cmd_add_pending and cmd_flush_pending (contacts.rs:400-476)             *)
(***************************************************************************)
\* contacts.rs:405-414: the pending entries `pending_id` selects.
pending_matches(s, pending_id) ==
    {k \in DOMAIN s.pending_contacts :
        \/ starts_with(s.pending_contacts[k].public_key, pending_id)
        \/ /\ s.pending_contacts[k].name # None
           /\ eq_ignore_ascii_case(s.pending_contacts[k].name, pending_id)}

\* contacts.rs:402
StartAddPending ==
    /\ stateLock = "free"
    /\ stateLock' = "fg"
    /\ \E id \in PendingIds :
          FgStart([FgIdle EXCEPT !.cmd = "add_pending", !.arg = id], "ap_locked")
    /\ UNCHANGED <<state, stateVars, clientLock, streamOpen, produced, subs, since,
                   got, bg, waitRes, cmdRes, committed, promptSeen>>

\* The outcome of the lookup once the guard is gone (contacts.rs:418-427).
ApLookup ==
    IF pending_matches(state, fg.arg) = {}
    THEN FgDone("ContactNotFound")
    ELSE \E k \in pending_matches(state, fg.arg) :
            IF state.pending_contacts[k].contact = NoContact
            THEN FgDone("InvalidArgument")
            ELSE /\ fg' = [fg EXCEPT !.contact = state.pending_contacts[k].contact,
                                     !.v = state.pending_contacts[k].public_key]
                 /\ FgGoto("ap_send")
                 /\ UNCHANGED cmdRes

ApFind_keeps_lock ==
    /\ pc["fg"] = "ap_locked"
    /\ ApLookup
    /\ UNCHANGED <<state, stateVars, stateLock, clientLock, streamOpen, produced,
                   subs, since, got, bg, waitRes, cmds, committed, promptSeen>>

\* contacts.rs:405-427: the entry is cloned and the guard dropped (line 416).
ApFind ==
    /\ pc["fg"] = "ap_locked"
    /\ stateLock' = "free"
    /\ ApLookup
    /\ UNCHANGED <<state, stateVars, clientLock, streamOpen, produced, subs, since,
                   got, bg, waitRes, cmds, committed, promptSeen>>

\* contacts.rs:456: update_contact returns.
ApReturn ==
    /\ pc["fg"] = "ap_inflight"
    /\ clientLock' = "free"
    /\ \E out \in {"Ok", "Err"} :
          IF out = "Ok"
          THEN FgGoto("ap_remove") /\ UNCHANGED <<fg, cmdRes>>
          ELSE FgDone("Connection")
    /\ UNCHANGED <<state, stateVars, stateLock, streamOpen, produced, subs, since,
                   got, bg, waitRes, cmds, committed, promptSeen>>

\* contacts.rs:462-465
ApRemove ==
    /\ pc["fg"] = "ap_remove"
    /\ stateLock = "free"
    /\ state' = [state EXCEPT !.pending_contacts = MapRemove(@, fg.v)]
    /\ FgDone("Ok")
    /\ UNCHANGED <<stateVars, stateLock, clientLock, streamOpen, produced, subs,
                   since, got, bg, waitRes, cmds, committed, promptSeen>>

FlushPending_unlocked ==
    /\ pc["fg"] = "readline"
    /\ Len(produced) + cmds < MaxInputs
    /\ stateLock = "free"
    /\ cmds' = cmds + 1
    /\ fg' = [FgIdle EXCEPT !.cmd = "flush_pending",
                            !.count = Cardinality(DOMAIN state.pending_contacts)]
    /\ FgGoto("flush_clear")
    /\ UNCHANGED <<state, stateVars, stateLock, clientLock, streamOpen, produced,
                   subs, since, got, bg, waitRes, cmdRes, committed, promptSeen>>

\* contacts.rs:470-471: cmd_flush_pending locks the state and reads the count.
FlushPending ==
    /\ stateLock = "free"
    /\ stateLock' = "fg"
    /\ FgStart([FgIdle EXCEPT !.cmd = "flush_pending",
                              !.count = Cardinality(DOMAIN state.pending_contacts)],
               "flush_clear")
    /\ UNCHANGED <<state, stateVars, clientLock, streamOpen, produced, subs, since,
                   got, bg, waitRes, cmdRes, committed, promptSeen>>

\* contacts.rs:472-476: the map is cleared, the count printed, the guard dropped.
FlushClear ==
    /\ pc["fg"] = "flush_clear"
    /\ state' = clear_pending(state)
    /\ stateLock' = "free"
    /\ FgDone("Ok")
    /\ UNCHANGED <<stateVars, clientLock, streamOpen, produced, subs, since, got,
                   bg, waitRes, cmds, committed, promptSeen>>

(***************************************************************************)
(* Spec: interactive mode, the foreground commands against the listener    *)
(***************************************************************************)
\* main.rs:361-364: `chat` starts from a new state, `chat_to <contact>` calls
\* set_contact(Some(contact)) on it before interactive mode starts.
ChatContacts == {None, "Bob"}

Init ==
    /\ \E c \in ChatContacts : state = set_contact(SessionState_new, c)
    /\ pre = SessionState_new
    /\ lastOp = <<"new">>
    /\ opCount = 0
    /\ InitConc
    /\ calc = NoCalc

Next ==
    \/ Produce
    \/ CloseStream
    \/ BuildPrompt
    \/ StartWaitAck
    \/ WaitSubscribe
    \/ WaitRecv
    \/ WaitClosed
    \/ WaitTimeout
    \/ BgRecv
    \/ BgLookup
    \/ BgUpdate
    \/ BgClosed
    \/ StartToRoot
    \/ StartToLast
    \/ StartToSwap
    \/ StartToName
    \/ FgResolve
    \/ ToRelock
    \/ SetContactTake
    \/ SetContactStore
    \/ SwapFirst
    \/ SwapSecond
    \/ FgSend
    \/ StartMsg
    \/ MsgReturn
    \/ MsgRecord
    \/ StartLogin
    \/ LoginReturn
    \/ LoginTimeout
    \/ LoginSet
    \/ StartAddPending
    \/ ApFind
    \/ ApReturn
    \/ ApRemove
    \/ FlushPending
    \/ FlushClear

Spec == Init /\ [][Next]_vars

(***************************************************************************)
(* SpecState: the SessionState operations applied, in any order, to a      *)
(* session state.                                                          *)
(***************************************************************************)
\* The (current_contact, previous_contact) pairs set_contact and swap_contacts
\* can produce from SessionState::new().
ReachablePairs ==
    {p \in OptNames \X OptNames : p[1] # p[2] \/ p[1] = None}

InitState ==
    /\ \E p \in ReachablePairs, ls \in OptNames :
          state = [SessionState_new EXCEPT !.current_contact = p[1],
                                           !.previous_contact = p[2],
                                           !.last_sender = ls]
    /\ pre = state
    /\ lastOp = <<"new">>
    /\ opCount = 0
    /\ InitConc
    /\ calc = NoCalc

Apply(op, s) ==
    /\ opCount < MaxOps
    /\ opCount' = opCount + 1
    /\ pre' = state
    /\ lastOp' = op
    /\ state' = s
    /\ UNCHANGED <<concVars, calc>>

OpSetContact == \E v \in OptNames : Apply(<<"set_contact", v>>, set_contact(state, v))

OpSwapContacts == Apply(<<"swap_contacts">>, swap_contacts(state))

OpSetLoggedIn ==
    \E n \in Names, b \in BOOLEAN :
        Apply(<<"set_logged_in", n, b>>, set_logged_in(state, n, b))

OpAddPending ==
    \E k \in Keys, n \in OptNames :
        Apply(<<"add_pending", k, n>>, add_pending(state, k, n))

OpAddPendingContact ==
    \E c \in AdvertContacts :
        Apply(<<"add_pending_contact", c>>, add_pending_contact(state, c))

OpClearPending == Apply(<<"clear_pending">>, clear_pending(state))

OpTimeoutInsert ==
    \E n \in Names, t \in TimeoutValues :
        Apply(<<"timeout_insert", n, t>>, timeout_insert(state, n, t))

NextState ==
    \/ OpSetContact
    \/ OpSwapContacts
    \/ OpSetLoggedIn
    \/ OpAddPending
    \/ OpAddPendingContact
    \/ OpClearPending
    \/ OpTimeoutInsert

SpecState == InitState /\ [][NextState]_vars

(***************************************************************************)
(* SpecResolve: get_contact over directory snapshots and identifiers       *)
(***************************************************************************)
\* The names a cached contact may carry; "K1" reads like a key prefix.
SnapshotNames == {"Alice", "Bob", "K1"}

\* client.contacts(): the snapshots of the directory, a map keyed by public key.
Snapshots ==
    {d \in SUBSET {Contact(k, n) : k \in Keys, n \in SnapshotNames} :
        \A c1, c2 \in d : c1.public_key = c2.public_key => c1 = c2}

\* The identifiers handed to get_contact.
ResolveIds == {"alice", "ALICE", "Bob", "zed", "k", "K1", "k2", ""}

InitResolve ==
    /\ InitSession
    /\ \E d \in Snapshots, id \in ResolveIds :
          calc = [op |-> "get_contact", contacts |-> d, id |-> id,
                  done |-> FALSE, err |-> "none", out |-> NoContact]

\* mod.rs:73-95: the call returns Ok(contact) or Err(ContactNotFound).
Resolve ==
    /\ calc.op = "get_contact"
    /\ ~calc.done
    /\ LET found == get_contact_in(calc.contacts, calc.id) IN
       IF found = {}
       THEN calc' = [calc EXCEPT !.done = TRUE, !.err = "ContactNotFound"]
       ELSE \E c \in found : calc' = [calc EXCEPT !.done = TRUE, !.out = c]
    /\ UNCHANGED sessionVars

SpecResolve == InitResolve /\ [][Resolve]_vars

(***************************************************************************)
(* Number texts and fixed-width arithmetic                                 *)
(***************************************************************************)
\* Unsigned numbers wider than the checker's integers are little-endian byte
\* strings of WideLen bytes; a u32 is one whose bytes above the fourth are 0.
WideLen == 8
U32Len == 4

\* 256^i for the byte positions a small number occupies.
Pow256(i) == CASE i = 0 -> 1 [] i = 1 -> 256 [] i = 2 -> 65536 [] i = 3 -> 16777216

\* The wide number equal to the natural number n (n below 2^31).
Wide(n) == [i \in 1..WideLen |-> IF i <= U32Len THEN (n \div Pow256(i - 1)) % 256 ELSE 0]

\* The wide number given by its low bytes, least significant first.
WideOf(bytes) == [i \in 1..WideLen |-> IF i <= Len(bytes) THEN bytes[i] ELSE 0]

\* u32::MAX and u32::MAX + 1
U32MaxWide == WideOf(<<255, 255, 255, 255>>)
U32OverWide == WideOf(<<0, 0, 0, 0, 1>>)

FitsU32(w) == \A i \in (U32Len + 1)..WideLen : w[i] = 0

\* The low 32 bits of a wide number.
WrapU32(w) == [i \in 1..WideLen |-> IF i <= U32Len THEN w[i] ELSE 0]

RECURSIVE MulCarry(_, _, _, _)
\* The carry into byte i of w * f.
MulCarry(w, f, i, carry) ==
    IF i = 1 THEN carry
    ELSE (w[i - 1] * f + MulCarry(w, f, i - 1, carry)) \div 256

\* The exact product of a u32 held in a wide number and a factor below 2^17.
MulWide(w, f) == [i \in 1..WideLen |-> (w[i] * f + MulCarry(w, f, i, 0)) % 256]

\* The text of a numeric part: a decimal literal (its value a wide number),
\* nothing, or something that is not a number.
Dec(w) == [kind |-> "dec", n |-> w]
EmptyText == [kind |-> "empty", n |-> Wide(0)]
JunkText == [kind |-> "junk", n |-> Wide(0)]

\* Option<u32>
NoneU32 == [some |-> FALSE, v |-> Wide(0)]
SomeU32(w) == [some |-> TRUE, v |-> w]

\* str::parse::<u32>: Err on an empty or non-numeric text and on a value that
\* does not fit.
parse_u32(t) == IF t.kind = "dec" /\ FitsU32(t.n) THEN SomeU32(t.n) ELSE NoneU32

\* Option::unwrap_or(0)
unwrap_or_0(o) == IF o.some THEN o.v ELSE Wide(0)

\* a * f on u32 (mod.rs:159-163): the product when it fits; otherwise the build
\* decides: a panic with overflow checks (debug profile), the wrapped value
\* without them (release profile).
mul_u32(a, f) ==
    IF FitsU32(MulWide(a, f))
    THEN {[panic |-> FALSE, v |-> MulWide(a, f)]}
    ELSE {[panic |-> TRUE, v |-> Wide(0)],
          [panic |-> FALSE, v |-> WrapU32(MulWide(a, f))]}

(***************************************************************************)
(* parse_time_value (mod.rs:152-169)                                       *)
(***************************************************************************)
\* A time literal: optional surrounding blanks, a numeric part, a last
\* character that may be one of the suffixes.
TimeText(pad, num, suffix) == [pad |-> pad, num |-> num, suffix |-> suffix]

\* The seconds one unit of a suffix stands for (mod.rs:158-168).
suffix_factor(suffix) ==
    CASE suffix = "d" -> 86400
      [] suffix = "h" -> 3600
      [] suffix = "m" -> 60
      [] OTHER -> 1

\* mod.rs:152-169: the outcomes of parse_time_value(s). The trimmed text is
\* empty exactly when there is neither a numeric part nor a suffix; with the
\* suffix "s" or none the parsed value is returned without a multiplication.
parse_time_value(s) ==
    IF s.num.kind = "empty" /\ s.suffix = ""
    THEN {[panic |-> FALSE, v |-> Wide(0)]}
    ELSE IF s.suffix \in {"d", "h", "m"}
         THEN mul_u32(unwrap_or_0(parse_u32(s.num)), suffix_factor(s.suffix))
         ELSE {[panic |-> FALSE, v |-> unwrap_or_0(parse_u32(s.num))]}

(***************************************************************************)
(* SpecTime: parse_time_value over time literals                           *)
(***************************************************************************)
\* 49710 d, 1193046 h and 71582788 m are the largest values that fit.
TimeNumbers ==
    {Wide(0), Wide(1), Wide(2), Wide(60), Wide(49710), Wide(49711),
     Wide(1193046), Wide(1193047), Wide(71582788), Wide(71582789),
     U32MaxWide, U32OverWide}

TimeTexts ==
    {TimeText(pad, num, suffix) :
        pad \in BOOLEAN,
        num \in {EmptyText, JunkText} \cup {Dec(n) : n \in TimeNumbers},
        suffix \in {"d", "h", "m", "s", ""}}

InitTime ==
    /\ InitSession
    /\ \E s \in TimeTexts :
          calc = [op |-> "parse_time_value", s |-> s, done |-> FALSE,
                  panic |-> FALSE, v |-> Wide(0)]

ParseTime ==
    /\ calc.op = "parse_time_value"
    /\ ~calc.done
    /\ \E r \in parse_time_value(calc.s) :
          calc' = [calc EXCEPT !.done = TRUE, !.panic = r.panic, !.v = r.v]
    /\ UNCHANGED sessionVars

SpecTime == InitTime /\ [][ParseTime]_vars

(***************************************************************************)
(* cmd_apply_to: the filter (device.rs:819-906)                            *)
(***************************************************************************)
MaxClauses == 2

\* A number the checker's integers hold: the wide number's value when it is
\* below 2^31.
FitsInt(w) == FitsU32(w) /\ w[4] < 128
ToNat(w) == w[1] + w[2] * 256 + w[3] * 65536 + w[4] * 16777216

\* u32::saturating_sub(now, offset) for a `now` below 2^31.
saturating_sub(now, offset) ==
    IF FitsInt(offset) /\ ToNat(offset) <= now THEN now - ToNat(offset) ELSE 0

\* The text after "t=" or "h?": a (possibly signed) decimal or something else.
IntText(n) == [kind |-> "int", n |-> n]
BadText == [kind |-> "junk", n |-> 0]

\* Option<u8>, Option<i8>, Option<u32> below 2^31
NoneNum == [some |-> FALSE, v |-> 0]
SomeNum(v) == [some |-> TRUE, v |-> v]

\* str::parse::<u8>().ok() and str::parse::<i8>().ok()
parse_u8(t) == IF t.kind = "int" /\ t.n >= 0 /\ t.n <= 255 THEN SomeNum(t.n) ELSE NoneNum
parse_i8(t) == IF t.kind = "int" /\ t.n >= -128 /\ t.n <= 127 THEN SomeNum(t.n) ELSE NoneNum

\* v + d on i8 (device.rs:855,857): the sum when it fits; otherwise a panic with
\* overflow checks, the wrapped value without them.
add_i8(v, d) ==
    IF v + d >= -128 /\ v + d <= 127
    THEN {[panic |-> FALSE, v |-> v + d]}
    ELSE {[panic |-> TRUE, v |-> 0],
          [panic |-> FALSE, v |-> ((v + d + 128) % 256) - 128]}

\* One clause of the filter text, trimmed: its leading form and what follows.
Clause(kind, arg, time) == [kind |-> kind, arg |-> arg, time |-> time]
NoTime == TimeText(FALSE, EmptyText, "")
TypeClause(arg) == Clause("t=", arg, NoTime)
HopClause(kind, arg) == Clause(kind, arg, NoTime)
TimeClause(kind, time) == Clause(kind, BadText, time)
WordClause(kind) == Clause(kind, BadText, NoTime)

\* device.rs:830-834: the criteria before any clause is read.
NoCriteria ==
    [ contact_type |-> NoneNum, min_hops |-> NoneNum, max_hops |-> NoneNum,
      upd_before |-> NoneNum, upd_after |-> NoneNum, panic |-> FALSE ]

\* device.rs:842-869: the criteria after one more clause, for each outcome the
\* arithmetic of the clause can have.
apply_clause(crit, cl, now) ==
    CASE crit.panic -> {crit}
      [] cl.kind \in {"", "all"} -> {crit}
      [] cl.kind = "t=" -> {[crit EXCEPT !.contact_type = parse_u8(cl.arg)]}
      [] cl.kind = "d" -> {[crit EXCEPT !.min_hops = SomeNum(0)]}
      [] cl.kind = "f" -> {[crit EXCEPT !.max_hops = SomeNum(-1)]}
      [] cl.kind = "h>" ->
            IF parse_i8(cl.arg).some
            THEN {IF r.panic THEN [crit EXCEPT !.panic = TRUE]
                             ELSE [crit EXCEPT !.min_hops = SomeNum(r.v)] :
                    r \in add_i8(parse_i8(cl.arg).v, 1)}
            ELSE {[crit EXCEPT !.min_hops = NoneNum]}
      [] cl.kind = "h<" ->
            IF parse_i8(cl.arg).some
            THEN {IF r.panic THEN [crit EXCEPT !.panic = TRUE]
                             ELSE [crit EXCEPT !.max_hops = SomeNum(r.v)] :
                    r \in add_i8(parse_i8(cl.arg).v, -1)}
            ELSE {[crit EXCEPT !.max_hops = NoneNum]}
      [] cl.kind = "h=" ->
            {[crit EXCEPT !.min_hops = parse_i8(cl.arg), !.max_hops = parse_i8(cl.arg)]}
      [] cl.kind = "u<" ->
            {IF r.panic THEN [crit EXCEPT !.panic = TRUE]
                        ELSE [crit EXCEPT !.upd_before = SomeNum(saturating_sub(now, r.v))] :
               r \in parse_time_value(cl.time)}
      [] cl.kind = "u>" ->
            {IF r.panic THEN [crit EXCEPT !.panic = TRUE]
                        ELSE [crit EXCEPT !.upd_after = SomeNum(saturating_sub(now, r.v))] :
               r \in parse_time_value(cl.time)}
      [] OTHER -> {crit}

RECURSIVE parse_filter_from(_, _, _, _)
\* device.rs:842-869: the loop over filter.split(','), from clause i on.
parse_filter_from(filter, now, i, crits) ==
    IF i > Len(filter) THEN crits
    ELSE parse_filter_from(filter, now, i + 1,
            UNION {apply_clause(c, filter[i], now) : c \in crits})

parse_filter(filter, now) == parse_filter_from(filter, now, 1, {NoCriteria})

\* device.rs:873-878
type_code(device_type) ==
    CASE device_type = "Unknown" -> 0
      [] device_type = "Node" -> 1
      [] device_type = "Repeater" -> 2
      [] device_type = "Room" -> 3

\* device.rs:872-906: the predicate of matching.retain.
retain(c, crit) ==
    /\ crit.contact_type.some => type_code(c.device_type) = crit.contact_type.v
    /\ crit.min_hops.some => ~(c.out_path_len < crit.min_hops.v)
    /\ crit.max_hops.some => ~(c.out_path_len > crit.max_hops.v)
    /\ crit.upd_before.some => ~(c.last_modified >= crit.upd_before.v)
    /\ crit.upd_after.some => ~(c.last_modified <= crit.upd_after.v)

(***************************************************************************)
(* SpecApply: cmd_apply_to over filters, instants and sub-command outcomes *)
(***************************************************************************)
\* The evaluation instants `now` (device.rs:836-839), seconds since the epoch.
Nows == {10000, 3000}

ApplyContact(name, device_type, out_path_len, last_modified) ==
    [ name |-> name, device_type |-> device_type, out_path_len |-> out_path_len,
      last_modified |-> last_modified ]

\* device.rs:824-827: the cached contacts in the order values() yields them.
ApplySnapshot ==
    << ApplyContact("R1", "Repeater", 1, 100),
       ApplyContact("M1", "Room", 1, 6400),
       ApplyContact("N1", "Node", -1, 9000),
       ApplyContact("R2", "Repeater", 2, 9900) >>

OneHour == TimeText(FALSE, Dec(Wide(1)), "h")
TooManyDays == TimeText(FALSE, Dec(Wide(49711)), "d")

\* The clauses the filters are made of.
Clauses ==
    { TypeClause(IntText(2)), TypeClause(IntText(3)), TypeClause(BadText),
      WordClause("d"), WordClause("f"), WordClause("all"),
      HopClause("h>", IntText(1)), HopClause("h>", IntText(3)),
      HopClause("h>", IntText(127)), HopClause("h<", IntText(3)),
      HopClause("h<", IntText(-128)), HopClause("h=", IntText(2)),
      HopClause("h=", BadText),
      TimeClause("u>", OneHour), TimeClause("u<", OneHour),
      TimeClause("u>", TooManyDays) }

Filters == UNION {[1..n -> Clauses] : n \in 0..MaxClauses}

\* commands.join(" "): a removal, a message, or a repeater command.
CmdLines == {"remove_contact", "send hi", "clock"}

InitApply ==
    /\ InitSession
    /\ \E f \in Filters, now \in Nows, cmd \in CmdLines :
          calc = [ op |-> "apply_to", filter |-> f, now |-> now, cmd_line |-> cmd,
                   phase |-> "filter", matching |-> <<>>, count |-> 0, i |-> 1,
                   log |-> <<>>, ret |-> "none" ]

\* device.rs:824-910: the contacts are snapshotted, the filter parsed and
\* applied, the count taken; an overflow panic ends the command.
ApplyFilter ==
    /\ calc.op = "apply_to"
    /\ calc.phase = "filter"
    /\ \E crit \in parse_filter(calc.filter, calc.now) :
          IF crit.panic
          THEN calc' = [calc EXCEPT !.phase = "done", !.ret = "panic"]
          ELSE LET matching == SelectSeq(ApplySnapshot, LAMBDA c : retain(c, crit))
               IN  calc' = [calc EXCEPT !.phase = "dispatch", !.matching = matching,
                                        !.count = Len(matching)]
    /\ UNCHANGED sessionVars

\* Whether the loop body calls a sub-command for the contact (device.rs:915-949).
attempts(cmd_line, contact) ==
    \/ cmd_line = "remove_contact"
    \/ cmd_line = "send hi"
    \/ contact.device_type \in {"Repeater", "Room"}

dispatch_stop_on_error(c, result) ==
    IF c.phase = "dispatch" /\ result = "error"
    THEN [c EXCEPT !.phase = "done", !.ret = "Err"]
    ELSE c

\* device.rs:917-949: what happens to the command after one contact's result.
dispatch_next(c, result) == c

\* device.rs:912-950: one iteration of `for contact in matching`.
DispatchOne ==
    /\ calc.op = "apply_to"
    /\ calc.phase = "dispatch"
    /\ calc.i <= Len(calc.matching)
    /\ LET contact == calc.matching[calc.i] IN
       \E result \in IF attempts(calc.cmd_line, contact)
                     THEN {"ok", "error"} ELSE {"warning"} :
          calc' = dispatch_next(
                     [calc EXCEPT !.i = calc.i + 1,
                                  !.log = Append(calc.log,
                                             [name |-> contact.name, result |-> result])],
                     result)
    /\ UNCHANGED sessionVars

\* device.rs:952-953: the count is printed and Ok(()) returned.
ApplyReport ==
    /\ calc.op = "apply_to"
    /\ calc.phase = "dispatch"
    /\ calc.i > Len(calc.matching)
    /\ calc' = [calc EXCEPT !.phase = "done", !.ret = "Ok"]
    /\ UNCHANGED sessionVars

NextApply ==
    \/ ApplyFilter
    \/ DispatchOne
    \/ ApplyReport

SpecApply == InitApply /\ [][NextApply]_vars

(***************************************************************************)
(* SpecLine: one line of text in each front end                            *)
(***************************************************************************)
\* The front ends that map a line to a command: the REPL (process_line), the
\* `script` command (cmd_script), a script file given on the command line
\* (execute_script) and the init scripts (run_init_scripts).
FrontEnds == {"repl", "cmd_script", "execute_script", "init"}

\* The first words of the lines tried.
LineWords == {"clock", "flush_pending", "wait_key", "hello", "/hello", ".hello"}

\* interactive.rs:584-820: the words forward_command has an arm for.
ForwardWords == {"clock", "flush_pending"}

\* device.rs:686-812: the words execute_interactive_cmd has an arm for.
InteractiveWords == {"clock", "flush_pending"}

\* main.rs:159-355: the words parse_command_line has an arm for.
ParseWords == {"clock", "flush_pending", "wait_key"}

\* interactive.rs:479-558: the words the is_command list names.
is_command(word) == word \in {"clock"}

\* Whether the handler of a recognised word calls the device client.
calls_device(word) == word = "clock"

\* str::starts_with('/') || str::starts_with('.')
starts_with_slash_or_dot(line) == line \in {"/hello", ".hello"}

sends_as_message_any_lead(current, word) == current # None /\ ~is_command(word)

\* interactive.rs:474,560: with a contact selected, a line that names no
\* command of the list and does not start with '/' or '.' is sent as a message.
sends_as_message(current, word) ==
    current # None /\ ~is_command(word) /\ ~starts_with_slash_or_dot(word)

\* interactive.rs:574-826: forward_command
forward_command(word) ==
    IF word \in ForwardWords
    THEN [outcome |-> "handled", ret |-> "Ok", device_call |-> calls_device(word)]
    ELSE [outcome |-> "unknown", ret |-> "Ok", device_call |-> FALSE]

\* interactive.rs:468-569 and messaging.rs:20-28: the default branch of
\* process_line; cmd_msg resolves the contact before it calls the device.
process_line(current, word, resolves) ==
    IF sends_as_message(current, word)
    THEN IF resolves
         THEN [outcome |-> "message", ret |-> "Ok", device_call |-> TRUE]
         ELSE [outcome |-> "message", ret |-> "ContactNotFound", device_call |-> FALSE]
    ELSE forward_command(word)

\* device.rs:655-672,686-813: a line of cmd_script
script_line(word) ==
    IF word \in InteractiveWords
    THEN [outcome |-> "handled", ret |-> "Ok", device_call |-> calls_device(word)]
    ELSE [outcome |-> "unknown", ret |-> "Script", device_call |-> FALSE]

\* main.rs:468-487: a line of execute_script
execute_script_line(word) ==
    IF word \in ParseWords
    THEN [outcome |-> "handled", ret |-> "Ok", device_call |-> calls_device(word)]
    ELSE [outcome |-> "unknown", ret |-> "Script", device_call |-> FALSE]

\* main.rs:133-140: a line of an init script; a line parse_command_line
\* rejects is passed over.
init_line(word) ==
    IF word \in ParseWords
    THEN [outcome |-> "handled", ret |-> "Ok", device_call |-> calls_device(word)]
    ELSE [outcome |-> "skipped", ret |-> "Ok", device_call |-> FALSE]

InitLine ==
    /\ \E c \in ChatContacts : state = set_contact(SessionState_new, c)
    /\ pre = SessionState_new
    /\ lastOp = <<"new">>
    /\ opCount = 0
    /\ InitConc
    /\ \E front \in FrontEnds, word \in LineWords, resolves \in BOOLEAN :
          calc = [ op |-> "line", front |-> front, word |-> word,
                   resolves |-> resolves, done |-> FALSE,
                   outcome |-> "none", ret |-> "none", device_call |-> FALSE ]

DispatchLine ==
    /\ calc.op = "line"
    /\ ~calc.done
    /\ LET r == CASE calc.front = "repl" ->
                        process_line(state.current_contact, calc.word, calc.resolves)
                  [] calc.front = "cmd_script" -> script_line(calc.word)
                  [] calc.front = "execute_script" -> execute_script_line(calc.word)
                  [] calc.front = "init" -> init_line(calc.word)
       IN  calc' = [calc EXCEPT !.done = TRUE, !.outcome = r.outcome, !.ret = r.ret,
                                !.device_call = r.device_call]
    /\ UNCHANGED sessionVars

SpecLine == InitLine /\ [][DispatchLine]_vars

(***************************************************************************)
(* The foreground waits on the event stream, with the passage of time      *)
(***************************************************************************)
\* Time is counted in ticks; a timeout of n seconds is n ticks.
MaxWaitSecs == 2
MaxWaitEvents == 2

\* messaging.rs:264-280: cmd_msgs_subscribe wraps subscription.recv() in no
\* tokio::time::timeout.
NoDeadline == [armed |-> FALSE, left |-> 0]

\* mod.rs:106: tokio::time::timeout(timeout, ..) with `left` ticks to go
Deadline(secs) == [armed |-> TRUE, left |-> secs]

\* messaging.rs:150-155
MsgFilter == {"ContactMessage", "ChannelMessage"}

\* messaging.rs:173
MessagesWaitingFilter == {"MessagesWaiting"}

\* repeater.rs:149
StatusFilter == {"StatusResponse"}

\* repeater.rs:241,554
BinaryFilter == {"BinaryResponse"}

\* the commands that wait through wait_for_event
TimedWaits == {"wait_ack", "wait_msg", "trywait_msg", "login", "req_status", "req_binary"}

WaitCmds == TimedWaits \cup {"msgs_subscribe"}

\* the filter each command hands to wait_for_event
wait_filter(cmd) ==
    CASE cmd = "wait_ack" -> AckFilter
      [] cmd = "wait_msg" -> MsgFilter
      [] cmd = "trywait_msg" -> MessagesWaitingFilter
      [] cmd = "login" -> LoginFilter
      [] cmd = "req_status" -> StatusFilter
      [] cmd = "req_binary" -> BinaryFilter
      [] OTHER -> NoFilter

\* the events the stream may deliver while a command waits
WaitKinds ==
    {"Ack", "ContactMessage", "MessagesWaiting", "LoginSuccess", "StatusResponse",
     "BinaryResponse", "Advertisement"}

no_deadline_any(cmd, secs) == NoDeadline

\* mod.rs:106 (tokio::time::timeout(timeout, ..)) for the commands that wait
\* through wait_for_event; messaging.rs:267-280 for cmd_msgs_subscribe.
wait_deadline(cmd, secs) == IF cmd \in TimedWaits THEN Deadline(secs) ELSE NoDeadline

InitWait ==
    /\ InitSession
    /\ \E cmd \in WaitCmds, secs \in 0..MaxWaitSecs :
          calc = [ op |-> "wait", cmd |-> cmd, deadline |-> wait_deadline(cmd, secs),
                   seen |-> 0, quiet |-> FALSE, pcw |-> "recv", result |-> "none" ]

\* time passes while the command is parked in subscription.recv()
WaitTick ==
    /\ calc.op = "wait"
    /\ calc.pcw = "recv"
    /\ calc.deadline.armed
    /\ calc.deadline.left > 0
    /\ calc' = [calc EXCEPT !.deadline.left = @ - 1]
    /\ UNCHANGED sessionVars

\* mod.rs:106,121: the timeout fires, wait_for_event returns Err(Timeout)
WaitElapsed ==
    /\ calc.op = "wait"
    /\ calc.pcw = "recv"
    /\ calc.deadline.armed
    /\ calc.deadline.left = 0
    /\ calc' = [calc EXCEPT !.pcw = "returned", !.result = "Err(Timeout)"]
    /\ UNCHANGED sessionVars

\* mod.rs:108-111: recv() yields an event; it is returned when the filter
\* matches and the loop goes round otherwise. messaging.rs:269-273:
\* cmd_msgs_subscribe handles the event and goes round.
WaitEvent ==
    /\ calc.op = "wait"
    /\ calc.pcw = "recv"
    /\ ~calc.quiet
    /\ calc.seen < MaxWaitEvents
    /\ \E k \in WaitKinds :
          IF calc.cmd \in TimedWaits /\ filter_matches(wait_filter(calc.cmd), [kind |-> k])
          THEN calc' = [calc EXCEPT !.seen = @ + 1, !.pcw = "returned", !.result = "Ok(event)"]
          ELSE calc' = [calc EXCEPT !.seen = @ + 1]
    /\ UNCHANGED sessionVars

\* mod.rs:112-114,121: recv() yields None, wait_for_event returns Err(Timeout);
\* messaging.rs:274: cmd_msgs_subscribe breaks and returns Ok.
WaitStreamClosed ==
    /\ calc.op = "wait"
    /\ calc.pcw = "recv"
    /\ ~calc.quiet
    /\ calc' = [calc EXCEPT !.pcw = "returned",
                            !.result = IF calc.cmd \in TimedWaits THEN "Err(Timeout)" ELSE "Ok"]
    /\ UNCHANGED sessionVars

\* messaging.rs:277-279: Ctrl+C ends cmd_msgs_subscribe
WaitCtrlC ==
    /\ calc.op = "wait"
    /\ calc.pcw = "recv"
    /\ calc.cmd = "msgs_subscribe"
    /\ ~calc.quiet
    /\ calc' = [calc EXCEPT !.pcw = "returned", !.result = "Ok"]
    /\ UNCHANGED sessionVars

\* mod.rs:108, messaging.rs:269: from here on recv() stays pending: the stream
\* is open and delivers nothing, and nobody interrupts.
WaitFallsQuiet ==
    /\ calc.op = "wait"
    /\ calc.pcw = "recv"
    /\ ~calc.quiet
    /\ calc' = [calc EXCEPT !.quiet = TRUE]
    /\ UNCHANGED sessionVars

NextWait ==
    \/ WaitFallsQuiet
    \/ WaitTick
    \/ WaitElapsed
    \/ WaitEvent
    \/ WaitStreamClosed
    \/ WaitCtrlC

\* Time passes and an armed tokio timer fires; the arrival of events, the end
\* of the stream and Ctrl+C are up to the environment.
SpecWait ==
    InitWait /\ [][NextWait]_vars /\ WF_vars(WaitTick) /\ WF_vars(WaitElapsed)

(***************************************************************************)
(* Two consumers of the advert events: the listener and the handler of a   *)
(* foreground msgs_subscribe, each on its own subscription                 *)
(***************************************************************************)
MaxAdverts == 2

AdvertEvents ==
    {Event(kind, k) : kind \in {"Advertisement", "NewContactAdvert"}, k \in Keys}

\* The state update handle_message_event makes for an event
\* (messaging.rs:287-349).
handle_message_event(s, event, sender_name) ==
    CASE event.kind = "ContactMessage" -> [s EXCEPT !.last_sender = sender_name]
      [] event.kind = "Advertisement" -> add_pending(s, event.arg, None)
      [] event.kind = "NewContactAdvert" ->
            add_pending(s, event.arg, AdvertContactOf(event.arg).name)
      [] OTHER -> s

InitAdvert ==
    /\ InitSession
    /\ calc = [op |-> "advert", events |-> <<>>, bgDone |-> 0, fgDone |-> 0]

\* the device produces an advert; both subscriptions receive it
AdvertProduce ==
    /\ calc.op = "advert"
    /\ Len(calc.events) < MaxAdverts
    /\ \E e \in AdvertEvents : calc' = [calc EXCEPT !.events = Append(@, e)]
    /\ UNCHANGED sessionVars

\* interactive.rs:314-316,874-875,889-890: the listener handles its next event
AdvertBg ==
    /\ calc.op = "advert"
    /\ calc.bgDone < Len(calc.events)
    /\ state' = handle_background_event(state, calc.events[calc.bgDone + 1], None)
    /\ calc' = [calc EXCEPT !.bgDone = @ + 1]
    /\ UNCHANGED <<pre, lastOp, opCount, concVars>>

\* messaging.rs:269-272,324-337: cmd_msgs_subscribe handles its next event
AdvertFg ==
    /\ calc.op = "advert"
    /\ calc.fgDone < Len(calc.events)
    /\ state' = handle_message_event(state, calc.events[calc.fgDone + 1], None)
    /\ calc' = [calc EXCEPT !.fgDone = @ + 1]
    /\ UNCHANGED <<pre, lastOp, opCount, concVars>>

NextAdvert ==
    \/ AdvertProduce
    \/ AdvertBg
    \/ AdvertFg

SpecAdvert == InitAdvert /\ [][NextAdvert]_vars

(***************************************************************************)
(* cmd_msg with wait and cmd_wait_ack, with the Ack codes                  *)
(* (messaging.rs:13-72, mod.rs:103-123)                                    *)
(***************************************************************************)
MaxAckEvents == 2

AckCodes == {"a1", "a2"}

\* what the device may produce while the command runs
AckEvents == {Event("Ack", code) : code \in AckCodes} \cup {Event("LoginSuccess", None)}

\* `msg <name> <text>` with wait starts at the device call; a `wait_ack` on its
\* own starts at the wait, for a message sent before it.
InitAck ==
    /\ InitSession
    /\ \/ calc = [ op |-> "ack", cmd |-> "msg", pcm |-> "inflight", expected |-> None,
                   events |-> <<>>, sentAt |-> 0, since |-> 0, next |-> 1,
                   acked |-> None, result |-> "none" ]
       \/ \E code \in AckCodes :
             calc = [ op |-> "ack", cmd |-> "wait_ack", pcm |-> "wait_sub",
                      expected |-> code, events |-> <<>>, sentAt |-> 0, since |-> 0,
                      next |-> 1, acked |-> None, result |-> "none" ]

\* the device produces an event while the command is running
AckDevice ==
    /\ calc.op = "ack"
    /\ calc.pcm # "returned"
    /\ Len(calc.events) < MaxAckEvents
    /\ \E e \in AckEvents : calc' = [calc EXCEPT !.events = Append(@, e)]
    /\ UNCHANGED sessionVars

\* messaging.rs:24-44: send_message returns; MessageSent announces expected_ack
AckMsgReturn ==
    /\ calc.op = "ack"
    /\ calc.pcm = "inflight"
    /\ \/ \E code \in AckCodes :
             calc' = [calc EXCEPT !.pcm = "record", !.expected = code,
                                  !.sentAt = Len(calc.events)]
       \/ calc' = [calc EXCEPT !.pcm = "returned", !.result = "Command"]
       \/ calc' = [calc EXCEPT !.pcm = "returned", !.result = "Connection"]
    /\ UNCHANGED sessionVars

\* messaging.rs:35-39,47-48: expected_ack is printed, last_sender written, and
\* the command goes on to cmd_wait_ack
AckMsgRecord ==
    /\ calc.op = "ack"
    /\ calc.pcm = "record"
    /\ state' = [state EXCEPT !.last_sender = "Bob"]
    /\ calc' = [calc EXCEPT !.pcm = "wait_sub"]
    /\ UNCHANGED <<pre, lastOp, opCount, concVars>>

\* mod.rs:104: the wait's subscription starts with the events still to come
AckSubscribe ==
    /\ calc.op = "ack"
    /\ calc.pcm = "wait_sub"
    /\ calc' = [calc EXCEPT !.pcm = "wait_recv", !.since = Len(calc.events),
                            !.next = Len(calc.events) + 1]
    /\ UNCHANGED sessionVars

\* messaging.rs:56,59-60 with mod.rs:109: the event that ends cmd_wait_ack's
\* wait with success
ack_accepted(expected, event) == filter_matches(AckFilter, event)

\* mod.rs:108-111, messaging.rs:59-62
AckRecv ==
    /\ calc.op = "ack"
    /\ calc.pcm = "wait_recv"
    /\ calc.next <= Len(calc.events)
    /\ IF ack_accepted(calc.expected, calc.events[calc.next])
       THEN calc' = [calc EXCEPT !.pcm = "returned", !.result = "Ok",
                                 !.acked = calc.events[calc.next].arg,
                                 !.next = @ + 1]
       ELSE calc' = [calc EXCEPT !.next = @ + 1]
    /\ UNCHANGED sessionVars

\* mod.rs:106,121, messaging.rs:67-69: the timeout elapses with recv() pending
AckElapsed ==
    /\ calc.op = "ack"
    /\ calc.pcm = "wait_recv"
    /\ calc.next > Len(calc.events)
    /\ calc' = [calc EXCEPT !.pcm = "returned", !.result = "Timeout"]
    /\ UNCHANGED sessionVars

NextAck ==
    \/ AckDevice
    \/ AckMsgReturn
    \/ AckMsgRecord
    \/ AckSubscribe
    \/ AckRecv
    \/ AckElapsed

SpecAck == InitAck /\ [][NextAck]_vars

(***************************************************************************)
(* apply_to: the contact each sub-command reaches (device.rs:912-950)      *)
(***************************************************************************)
\* The names a stored contact may carry: two that are equal ignoring case,
\* and one more.
TargetNames == {"Bob", "bob", "Alice"}

\* the directories: maps keyed by public key, names not unique
TargetDirs ==
    {d \in SUBSET {Contact(k, n) : k \in Keys, n \in TargetNames} :
        d # {} /\ \A c1, c2 \in d : c1.public_key = c2.public_key => c1 = c2}

\* the orders in which the matched contacts of a directory may be visited
TargetOrders(d) ==
    {q \in UNION {[1..n -> d] : n \in 1..Cardinality(d)} :
        Len(q) = Cardinality(d) /\ \A i, j \in 1..Len(q) : q[i] = q[j] => i = j}

\* The sub-commands apply_to hands a contact's name to.
TargetCmds == {"remove_contact", "send"}

InitTarget ==
    /\ InitSession
    /\ \E d \in TargetDirs, cmd \in TargetCmds :
          \E q \in TargetOrders(d) :
             calc = [op |-> "target", cmd |-> cmd, matching |-> q, dir |-> d,
                     i |-> 1, acted |-> <<>>]

\* device.rs:916,927,938 with contacts.rs:360, messaging.rs:20, repeater.rs:95:
\* the sub-command is given c.name and looks the contact up again.
resolve_target(contacts, c) == get_contact_in(contacts, c.name)

\* device.rs:912-950: one iteration. The sub-command acts on the contact its
\* own get_contact returns; after a removal the cached directory may or may
\* not hold the removed contact still.
TargetStep ==
    /\ calc.op = "target"
    /\ calc.i <= Len(calc.matching)
    /\ LET c == calc.matching[calc.i]
           found == resolve_target(calc.dir, c)
       IN  IF found = {}
           THEN calc' = [calc EXCEPT !.i = @ + 1,
                            !.acted = Append(@, [on |-> c.public_key, hit |-> None])]
           ELSE \E t \in found :
                  \E after \in IF calc.cmd = "remove_contact"
                               THEN {calc.dir, calc.dir \ {t}}
                               ELSE {calc.dir} :
                     calc' = [calc EXCEPT !.i = @ + 1, !.dir = after,
                                 !.acted = Append(@, [on |-> c.public_key,
                                                      hit |-> t.public_key])]
    /\ UNCHANGED sessionVars

SpecTarget == InitTarget /\ [][TargetStep]_vars

(***************************************************************************)
(* The flood scope: cmd_scope (device.rs:574-596) and `to <name>%<scope>`  *)
(* (interactive.rs:432-449)                                                *)
(***************************************************************************)
MaxScopeOps == 3

\* the scope topics entered
Scopes == {"s1", "s2"}

\* the names entered after `to`
ScopeToNames == {"Bob", "alice", "zed"}

InitScope ==
    /\ InitSession
    /\ calc = [op |-> "scope", device |-> None, n |-> 0, last |-> "none", ret |-> "none"]

\* device.rs:576-579: `scope *`; the state is written only after the device
\* call succeeded (the `?` returns on an error).
ScopeClear ==
    /\ calc.op = "scope"
    /\ calc.n < MaxScopeOps
    /\ \E ok \in BOOLEAN :
          IF ok
          THEN /\ state' = [state EXCEPT !.flood_scope = None]
               /\ calc' = [calc EXCEPT !.device = None, !.n = @ + 1,
                                       !.last = "scope", !.ret = "Ok"]
          ELSE /\ state' = state
               /\ calc' = [calc EXCEPT !.n = @ + 1, !.last = "scope", !.ret = "Connection"]
    /\ UNCHANGED <<pre, lastOp, opCount, concVars>>

\* device.rs:580-592: `scope <topic>`
ScopeSet ==
    /\ calc.op = "scope"
    /\ calc.n < MaxScopeOps
    /\ \E topic \in Scopes, ok \in BOOLEAN :
          IF ok
          THEN /\ state' = [state EXCEPT !.flood_scope = topic]
               /\ calc' = [calc EXCEPT !.device = topic, !.n = @ + 1,
                                       !.last = "scope", !.ret = "Ok"]
          ELSE /\ state' = state
               /\ calc' = [calc EXCEPT !.n = @ + 1, !.last = "scope", !.ret = "Connection"]
    /\ UNCHANGED <<pre, lastOp, opCount, concVars>>

\* interactive.rs:432-449: `to <name>[%<scope>]` makes no device call
ScopeTo ==
    /\ calc.op = "scope"
    /\ calc.n < MaxScopeOps
    /\ \E name \in ScopeToNames, scope \in Scopes \cup {None} :
          IF get_contact(name) = {}
          THEN /\ state' = state
               /\ calc' = [calc EXCEPT !.n = @ + 1, !.last = "to",
                                       !.ret = "ContactNotFound"]
          ELSE \E c \in get_contact(name) :
                  /\ state' = to_scope(set_contact(state, c.name), scope)
                  /\ calc' = [calc EXCEPT !.n = @ + 1, !.last = "to", !.ret = "Ok"]
    /\ UNCHANGED <<pre, lastOp, opCount, concVars>>

NextScope ==
    \/ ScopeClear
    \/ ScopeSet
    \/ ScopeTo

SpecScope == InitScope /\ [][NextScope]_vars

(***************************************************************************)
(* Well-formedness of a SessionState                                       *)
(***************************************************************************)
IsPendingContact(k, p) ==
    /\ p.public_key = k
    /\ p.name \in OptNames
    /\ p.contact = NoContact \/ p.contact \in AdvertContacts

IsSessionState(s) ==
    /\ DOMAIN s = DOMAIN SessionState_new
    /\ s.current_contact \in OptNames
    /\ s.previous_contact \in OptNames
    /\ DOMAIN s.logged_in \subseteq Names
    /\ \A n \in DOMAIN s.logged_in : s.logged_in[n] \in BOOLEAN
    /\ DOMAIN s.pending_contacts \subseteq Keys
    /\ \A k \in DOMAIN s.pending_contacts : IsPendingContact(k, s.pending_contacts[k])
    /\ DOMAIN s.contact_timeouts \subseteq Names
    /\ \A n \in DOMAIN s.contact_timeouts : s.contact_timeouts[n] \in TimeoutValues

(***************************************************************************)
(* Claims about the SessionState operations (checked under SpecState)      *)
(***************************************************************************)

\* C7: set_contact(v) with v different from current_contact moves the old
\* current_contact into previous_contact and makes v current; with v equal to
\* current_contact it changes neither field; no other field ever changes.
C7_SetContact ==
    lastOp[1] = "set_contact" =>
        /\ IF lastOp[2] # pre.current_contact
           THEN /\ state.previous_contact = pre.current_contact
                /\ state.current_contact = lastOp[2]
           ELSE ContactPair(state) = ContactPair(pre)
        /\ state = [pre EXCEPT !.current_contact = state.current_contact,
                               !.previous_contact = state.previous_contact]

C7_Witness ==
    /\ lastOp[1] = "set_contact"
    /\ lastOp[2] # pre.current_contact
    /\ pre.current_contact # None
    /\ state.previous_contact = pre.current_contact
    /\ state.last_sender # None
    /\ DOMAIN state.pending_contacts # {}

\* C8: swap_contacts exchanges current_contact and previous_contact, and a
\* second swap_contacts restores the pair (and the whole state) it started from.
C8_SwapInvolution ==
    /\ swap_contacts(swap_contacts(state)) = state
    /\ lastOp[1] = "swap_contacts" =>
          /\ state.current_contact = pre.previous_contact
          /\ state.previous_contact = pre.current_contact
          /\ ContactPair(swap_contacts(state)) = ContactPair(pre)
          /\ swap_contacts(state) = pre

C8_Witness ==
    /\ lastOp[1] = "swap_contacts"
    /\ opCount = 2
    /\ pre.current_contact # None
    /\ pre.previous_contact # None
    /\ pre.current_contact # pre.previous_contact
    /\ ContactPair(state) = <<pre.previous_contact, pre.current_contact>>

\* C9 (as claimed): add_pending(k, name) on a key whose pending entry holds a
\* full Contact payload leaves that payload in place.
C9_PayloadPreserved ==
    lastOp[1] = "add_pending" =>
        \A k \in DOMAIN pre.pending_contacts :
            (k = lastOp[2] /\ pre.pending_contacts[k].contact # NoContact)
                => state.pending_contacts[k].contact = pre.pending_contacts[k].contact

\* The operations of SessionState with every argument, as state transformers.
IdempotentOps(s) ==
    {set_contact(s, v) = set_contact(set_contact(s, v), v) : v \in OptNames}
    \cup {set_logged_in(s, n, b) = set_logged_in(set_logged_in(s, n, b), n, b) :
             n \in Names, b \in BOOLEAN}
    \cup {add_pending(s, k, n) = add_pending(add_pending(s, k, n), k, n) :
             k \in Keys, n \in OptNames}
    \cup {add_pending_contact(s, c) = add_pending_contact(add_pending_contact(s, c), c) :
             c \in AdvertContacts}
    \cup {clear_pending(s) = clear_pending(clear_pending(s))}
    \cup {timeout_insert(s, n, t) = timeout_insert(timeout_insert(s, n, t), n, t) :
             n \in Names, t \in TimeoutValues}

TotalOps(s) ==
    /\ \A v \in OptNames : IsSessionState(set_contact(s, v))
    /\ IsSessionState(swap_contacts(s))
    /\ \A n \in Names, b \in BOOLEAN : IsSessionState(set_logged_in(s, n, b))
    /\ \A k \in Keys, n \in OptNames : IsSessionState(add_pending(s, k, n))
    /\ \A c \in AdvertContacts : IsSessionState(add_pending_contact(s, c))
    /\ IsSessionState(clear_pending(s))
    /\ \A n \in Names, t \in TimeoutValues : IsSessionState(timeout_insert(s, n, t))

\* C10 (as claimed): every SessionState operation, swap_contacts included, is
\* total and idempotent.
C10_AllIdempotent ==
    /\ TotalOps(state)
    /\ IdempotentOps(state) = {TRUE}
    /\ swap_contacts(swap_contacts(state)) = swap_contacts(state)

\* C10 (amended): every SessionState operation is total, and every operation
\* other than swap_contacts is idempotent; swap_contacts is idempotent exactly
\* on the states whose current_contact equals previous_contact.
C10_IdempotentExceptSwap ==
    /\ TotalOps(state)
    /\ IdempotentOps(state) = {TRUE}
    /\ (swap_contacts(swap_contacts(state)) = swap_contacts(state))
          <=> (state.current_contact = state.previous_contact)
    /\ (opCount = 2 /\ lastOp = <<"set_contact", state.current_contact>>
          /\ pre.current_contact = state.current_contact) => state = pre

C10_Witness ==
    /\ opCount = 2
    /\ lastOp[1] = "set_contact"
    /\ lastOp[2] = pre.current_contact
    /\ lastOp[2] # None
    /\ pre.previous_contact # None
    /\ state = pre

(***************************************************************************)
(* Claims about the wait engine, the listener and the locks (under Spec)   *)
(***************************************************************************)
\* The indices a subscription created when `n` events had been produced is owed
\* once `m` events have been produced: n+1, ..., m in production order.
OwedSince(n, m) == [k \in 1..(m - n) |-> n + k]

\* C1: wait_for_event returns Ok(e) only for an e that matches the filter and is
\* the first matching event delivered to the wait's own subscription after it
\* was created; every event delivered before e failed the filter.
C1_WaitReturnsFirstMatch ==
    waitRes.tag = "Ok" =>
        /\ waitRes.ev \in (waitRes.since + 1)..Len(produced)
        /\ produced[waitRes.ev].kind \in waitRes.filter
        /\ \A j \in (waitRes.since + 1)..(waitRes.ev - 1) :
              produced[j].kind \notin waitRes.filter
        /\ got["fg"] = OwedSince(waitRes.since, waitRes.ev)

C1_Witness ==
    /\ waitRes.tag = "Ok"
    /\ waitRes.ev = waitRes.since + 2
    /\ produced[waitRes.ev].kind = "Ack"
    /\ produced[waitRes.ev - 1].kind = "ContactMessage"
    /\ cmdRes = "Ok"

\* C2: every live subscription has been handed, or still holds in its queue,
\* exactly the events produced since it was created, each once and in
\* production order, whatever the other consumers have taken.
C2_Broadcast ==
    \A t \in Tasks :
        IF subs[t].live
        THEN got[t] \o subs[t].queue = OwedSince(since[t], Len(produced))
        ELSE subs[t].queue = <<>>

C2_Witness ==
    /\ subs["bg"].live
    /\ subs["fg"].live
    /\ since["fg"] = 1
    /\ got["bg"] = <<1, 2>>
    /\ got["fg"] = <<2>>
    /\ pc["fg"] = "wait_recv"

\* C3 (as claimed): a wait that ends because the stream was closed returns a
\* result distinct from the one a wait returns when its timeout elapses.
C3_StreamClosedDistinct ==
    waitRes.inner = "None" =>
        [tag |-> waitRes.tag, ev |-> waitRes.ev]
            # wait_for_event_result([tag |-> "Elapsed", ev |-> 0])

\* A step of the foreground task inside wait_for_event.
FgWaitStep ==
    /\ pc["fg"] \in WaitPcs
    /\ pc'["fg"] # pc["fg"] \/ got'["fg"] # got["fg"]

C5_AtomicPair ==
    /\ stateLock # "fg" => ContactPair(state) = committed
    /\ pc["fg"] = "readline" => promptSeen = committed

C5_Witness ==
    /\ pc["fg"] = "to_half"
    /\ stateLock = "fg"
    /\ ContactPair(state) # committed
    /\ pc["bg"] = "bg_state"

\* C6: a task that holds the session-state lock is never inside a device call
\* (waiting for the client, or with the request in flight) or wait_for_event.
C6_NoLockAcrossSuspension ==
    \A t \in Tasks :
        stateLock = t =>
            pc[t] \notin DevicePcs \cup WaitPcs \cup {"msg_send", "login_send", "ap_send"}

C6_Witness ==
    /\ pc["fg"] = "ap_inflight"
    /\ clientLock = "fg"
    /\ stateLock = "free"
    /\ pc["bg"] = "bg_state"

\* C11: the step of cmd_flush_pending that clears the map leaves it empty and
\* reports the number of entries the map held immediately before the clear,
\* whatever the listener is doing; and after cmd_add_pending removes a key the
\* map has no entry for that key.
C11_FlushCount ==
    [][ /\ (pc["fg"] = "flush_clear" /\ pc'["fg"] # "flush_clear") =>
              /\ fg.count = Cardinality(DOMAIN state.pending_contacts)
              /\ state'.pending_contacts = EmptyMap
              /\ cmdRes' = "Ok"
        /\ (pc["fg"] = "ap_remove" /\ pc'["fg"] # "ap_remove") =>
              fg.v \notin DOMAIN state'.pending_contacts ]_vars

C11_Witness ==
    /\ pc["fg"] = "flush_clear"
    /\ fg.count = 1
    /\ DOMAIN state.pending_contacts = {"k1"}
    /\ pc["bg"] = "bg_state"
    /\ produced[bg.ev].kind \in {"Advertisement", "NewContactAdvert"}

\* C12: get_contact(id) over any directory snapshot returns a contact whose
\* name equals id ignoring ASCII case when there is one (even if id is a key
\* prefix of another contact); otherwise a contact whose key hex starts with
\* the lowercased id when there is one; otherwise ContactNotFound; it never
\* returns a contact that satisfies neither rule.
C12_ResolveOrder ==
    (calc.op = "get_contact" /\ calc.done) =>
        LET nameHits == {c \in calc.contacts : AsciiLower(c.name) = AsciiLower(calc.id)}
            keyHits  == {c \in calc.contacts :
                            starts_with(c.public_key, AsciiLower(calc.id))}
        IN  /\ nameHits # {} => (calc.err = "none" /\ calc.out \in nameHits)
            /\ (nameHits = {} /\ keyHits # {}) =>
                   (calc.err = "none" /\ calc.out \in keyHits)
            /\ (nameHits = {} /\ keyHits = {}) =>
                   (calc.err = "ContactNotFound" /\ calc.out = NoContact)
            /\ calc.err = "none" => calc.out \in nameHits \cup keyHits

C12_Witness ==
    /\ calc.op = "get_contact"
    /\ calc.done
    /\ calc.id = "K1"
    /\ calc.contacts = {Contact("k1", "Alice"), Contact("k2", "K1")}
    /\ calc.out = Contact("k2", "K1")

\* The names in a sequence of contacts.
NamesOf(seq) == {seq[k].name : k \in 1..Len(seq)}

\* apply_to has parsed and applied the filter of calc without a panic.
Filtered == calc.op = "apply_to" /\ calc.phase # "filter" /\ calc.ret # "panic"

\* A clause whose evaluation has one outcome, and that one no panic.
Deterministic(cl, now) ==
    /\ Cardinality(parse_filter(<<cl>>, now)) = 1
    /\ \A crit \in parse_filter(<<cl>>, now) : ~crit.panic

\* The contacts apply_to selects for the filter made of the clause alone.
SelectedAlone(cl, now) ==
    {ApplySnapshot[k].name : k \in
        {j \in 1..Len(ApplySnapshot) :
            \A crit \in parse_filter(<<cl>>, now) : retain(ApplySnapshot[j], crit)}}

\* C13 (as claimed): the contacts apply_to selects for a filter are the
\* intersection of the sets selected by each of its clauses taken alone.
C13_Conjunctive ==
    (Filtered /\ \A k \in 1..Len(calc.filter) : Deterministic(calc.filter[k], calc.now)) =>
        NamesOf(calc.matching) =
            {n \in NamesOf(ApplySnapshot) :
                \A k \in 1..Len(calc.filter) : n \in SelectedAlone(calc.filter[k], calc.now)}

\* The duration a time literal stands for, when the checker's integers hold it.
DurationFits(t) ==
    t.num.kind = "dec" /\ FitsU32(t.num.n) /\ FitsInt(MulWide(t.num.n, suffix_factor(t.suffix)))
DurationOf(t) == ToNat(MulWide(t.num.n, suffix_factor(t.suffix)))

\* C14 (as claimed): "u>T" alone selects exactly the contacts last modified
\* more than T seconds before now, "u<T" those on the other side of the bound.
C14_UpdatedBound ==
    (Filtered /\ Len(calc.filter) = 1 /\ calc.filter[1].kind \in {"u>", "u<"}
              /\ DurationFits(calc.filter[1].time)) =>
        LET T == DurationOf(calc.filter[1].time)
            older == {c \in {ApplySnapshot[k] : k \in 1..Len(ApplySnapshot)} :
                         c.last_modified < calc.now - T}
            newer == {c \in {ApplySnapshot[k] : k \in 1..Len(ApplySnapshot)} :
                         c.last_modified > calc.now - T}
        IN  NamesOf(calc.matching) =
               {c.name : c \in IF calc.filter[1].kind = "u>" THEN older ELSE newer}

\* C15 (as claimed): for n in -128..127 the clauses "h>n", "h<n", "h=n" alone
\* never fail and select exactly the contacts with out_path_len >, <, = n.
C15_HopBound ==
    (calc.op = "apply_to" /\ calc.phase # "filter" /\ Len(calc.filter) = 1
        /\ calc.filter[1].kind \in {"h>", "h<", "h="}
        /\ parse_i8(calc.filter[1].arg).some) =>
        LET n == calc.filter[1].arg.n
            kind == calc.filter[1].kind
        IN  /\ calc.ret # "panic"
            /\ NamesOf(calc.matching) =
                  {ApplySnapshot[k].name : k \in
                      {j \in 1..Len(ApplySnapshot) :
                          CASE kind = "h>" -> ApplySnapshot[j].out_path_len > n
                            [] kind = "h<" -> ApplySnapshot[j].out_path_len < n
                            [] kind = "h=" -> ApplySnapshot[j].out_path_len = n}}

\* apply_to has ended after parsing its filter without a panic.
Dispatched == calc.op = "apply_to" /\ calc.phase = "done" /\ calc.ret # "panic"

\* C17 (as claimed): a sub-command is attempted for every matched contact in
\* snapshot order whatever fails, the count is the number of matched contacts
\* and apply_to returns success.
C17_AllAttempted ==
    Dispatched =>
        /\ calc.ret = "Ok"
        /\ calc.count = Len(calc.matching)
        /\ Len(calc.log) = Len(calc.matching)
        /\ \A k \in 1..Len(calc.log) :
              /\ calc.log[k].name = calc.matching[k].name
              /\ calc.log[k].result \in {"ok", "error"}

\* C17 (amended): every matched contact is handled in snapshot order whatever
\* fails: a sub-command is attempted for it, or, for a repeater command and a
\* contact that is neither Repeater nor Room, it is skipped with a warning; the
\* count is the number of matched contacts and apply_to returns success.
C17_AttemptedOrSkipped ==
    Dispatched =>
        /\ calc.ret = "Ok"
        /\ calc.count = Len(calc.matching)
        /\ Len(calc.log) = Len(calc.matching)
        /\ \A k \in 1..Len(calc.log) :
              /\ calc.log[k].name = calc.matching[k].name
              /\ calc.log[k].result = "warning" <=>
                    /\ calc.cmd_line \notin {"remove_contact", "send hi"}
                    /\ calc.matching[k].device_type \notin {"Repeater", "Room"}

C17_Witness ==
    /\ Dispatched
    /\ calc.count = 4
    /\ calc.cmd_line = "clock"
    /\ calc.log[2].result = "error"
    /\ calc.log[3].result = "warning"
    /\ calc.log[4].result = "ok"

\* The first word of the line is no command of the front end that reads it.
Unrecognised ==
    /\ calc.op = "line"
    /\ calc.done
    /\ calc.word \notin
          CASE calc.front = "repl" -> ForwardWords
            [] calc.front = "cmd_script" -> InteractiveWords
            [] OTHER -> ParseWords

\* C18 (as claimed): in every front end a line whose first word is no command
\* gives the unknown-command outcome and causes no device call.
C18_UnknownEverywhere ==
    Unrecognised => (calc.outcome = "unknown" /\ ~calc.device_call)

\* C18 (amended): such a line gives the unknown-command outcome and no device
\* call in the REPL when no contact is selected or the line starts with '/' or
\* '.', and in a script; in the REPL with a contact selected it is sent to that
\* contact as a message; in an init script it is passed over without a call.
C18_UnknownByFrontEnd ==
    Unrecognised =>
        CASE calc.front = "repl" /\ state.current_contact # None
                /\ calc.word \notin {"/hello", ".hello"} ->
                  /\ calc.outcome = "message"
                  /\ calc.device_call <=> calc.resolves
          [] calc.front = "init" -> (calc.outcome = "skipped" /\ ~calc.device_call)
          [] OTHER -> (calc.outcome = "unknown" /\ ~calc.device_call)

C18_Witness ==
    /\ Unrecognised
    /\ calc.front = "repl"
    /\ calc.word = "/hello"
    /\ state.current_contact = "Bob"
    /\ calc.outcome = "unknown"

\* C16 (as claimed): parse_time_value never fails, and a decimal n that fits 32
\* bits followed by d, h, m, s or nothing yields n*86400, n*3600, n*60, n, n;
\* an empty or unparsable numeric part yields 0.
C16_ParseTimeTotal ==
    (calc.op = "parse_time_value" /\ calc.done) =>
        /\ ~calc.panic
        /\ IF calc.s.num.kind = "dec" /\ FitsU32(calc.s.num.n)
           THEN calc.v = MulWide(calc.s.num.n, suffix_factor(calc.s.suffix))
           ELSE calc.v = Wide(0)

\* C19: when cmd_login's wait ends without an event, cmd_login prints a warning
\* and returns Ok without touching the state; and the logged_in map changes
\* only in the step of a cmd_login whose wait returned LoginSuccess, which
\* marks that command's contact as logged in.
C19_LoginTimeout ==
    [][ /\ (FgWaitStep /\ fg.cmd = "login" /\ waitRes'.tag = "Timeout") =>
              /\ waitRes'.shown = "warning: Login response timeout"
              /\ cmdRes' = "Ok"
              /\ pc'["fg"] = "prompt"
              /\ state' = state
        /\ state'.logged_in # state.logged_in =>
              /\ pc["fg"] = "login_set"
              /\ fg.cmd = "login"
              /\ waitRes.tag = "Ok"
              /\ produced[waitRes.ev].kind = "LoginSuccess"
              /\ state'.logged_in = MapInsert(state.logged_in, fg.contact.name, TRUE) ]_vars

C19_Witness ==
    /\ waitRes.filter = LoginFilter
    /\ waitRes.inner = "Elapsed"
    /\ waitRes.shown = "warning: Login response timeout"
    /\ cmdRes = "Ok"
    /\ pc["fg"] = "prompt"
    /\ ~is_logged_in(state, "Alice")
    /\ Len(produced) > waitRes.since

WaitParked == calc.op = "wait" /\ calc.pcw = "recv"

\* C20 (as claimed): every foreground command that waits on the event stream
\* carries a timeout: once parked on a stream that stays open and delivers
\* nothing more, it returns all the same.
C20_EveryWaitReturns ==
    (WaitParked /\ calc.quiet) ~> calc.pcw = "returned"

\* the commands that wait through wait_for_event do return on a quiet stream
C20_TimedWaitsReturn ==
    (WaitParked /\ calc.quiet /\ calc.cmd \in TimedWaits) ~> calc.pcw = "returned"

\* the last event about key k that the device produced
LastAdvertFor(k) ==
    LET idx == {i \in 1..Len(calc.events) : calc.events[i].arg = k}
    IN  calc.events[CHOOSE i \in idx : \A j \in idx : j <= i]

AdvertsSettled ==
    /\ calc.op = "advert"
    /\ calc.bgDone = Len(calc.events)
    /\ calc.fgDone = Len(calc.events)

\* C21 (as claimed): once the listener and the msgs_subscribe handler have both
\* processed every advert, a key whose last event was a NewContactAdvert has a
\* pending entry with the full Contact, in whichever order the two ran; a key
\* that was only ever advertised bare has a key-only entry.
C21_FullPayloadAnyOrder ==
    AdvertsSettled =>
        \A k \in Keys :
            (\E i \in 1..Len(calc.events) : calc.events[i].arg = k) =>
                /\ k \in DOMAIN state.pending_contacts
                /\ LastAdvertFor(k).kind = "NewContactAdvert" =>
                      state.pending_contacts[k].contact = AdvertContactOf(k)
                /\ (\A i \in 1..Len(calc.events) :
                       calc.events[i].arg = k => calc.events[i].kind = "Advertisement") =>
                      state.pending_contacts[k] = PendingContact(k, None, NoContact)

\* C22 (as claimed): the client lock is not held across a device call, so the
\* listener's directory read (interactive.rs:841) never finds the lock taken
\* by a foreground command whose device call is still in flight.
C22_DirectoryReadNeverWaits ==
    ~(/\ pc["bg"] = "bg_lookup"
      /\ pc["fg"] \in DevicePcs
      /\ clientLock = "fg")

PendingKeys(s) == DOMAIN s.pending_contacts

\* a key leaves the pending map only in the last step of a successful
\* add_pending for that key, or in flush_pending
C23_LeavesOnlyByCommand ==
    [][ \A k \in Keys :
          (k \in PendingKeys(state) /\ k \notin PendingKeys(state')) =>
             \/ pc["fg"] = "flush_clear"
             \/ pc["fg"] = "ap_remove" /\ fg.cmd = "add_pending" /\ fg.v = k
                  /\ cmdRes' = "Ok" ]_vars

\* no step of an add_pending that ends in an error changes the pending map
C23_FailureKeepsMap ==
    [][ (fg.cmd = "add_pending" /\ pc'["fg"] = "prompt" /\ cmdRes' # "Ok") =>
            state'.pending_contacts = state.pending_contacts ]_vars

\* C23 (as claimed): an entry leaves the pending map only at the end of a
\* successful add_pending or in flush_pending, a failing add_pending leaves the
\* map as it was, and the entry a successful add_pending removes is the one it
\* approved, the listener's re-insertions of the key notwithstanding.
C23_RemovesTheApproved ==
    [][ /\ \A k \in Keys :
              (k \in PendingKeys(state) /\ k \notin PendingKeys(state')) =>
                 \/ pc["fg"] = "flush_clear"
                 \/ pc["fg"] = "ap_remove" /\ fg.cmd = "add_pending" /\ fg.v = k
                      /\ cmdRes' = "Ok"
        /\ (fg.cmd = "add_pending" /\ pc'["fg"] = "prompt" /\ cmdRes' # "Ok") =>
              state'.pending_contacts = state.pending_contacts
        /\ (pc["fg"] = "ap_remove" /\ pc'["fg"] = "prompt") =>
              /\ fg.v \in PendingKeys(state)
              /\ state.pending_contacts[fg.v].contact = fg.contact ]_vars

\* C24 (as claimed): cmd_msg with wait does not end in Timeout when the device
\* produced the Ack for the message at any moment after send_message returned
\* MessageSent and before the timeout elapsed.
C24_NoAckMissed ==
    (calc.op = "ack" /\ calc.cmd = "msg" /\ calc.pcm = "returned"
        /\ calc.result = "Timeout") =>
       ~\E i \in (calc.sentAt + 1)..Len(calc.events) :
            calc.events[i] = Event("Ack", calc.expected)

\* C25 (as claimed): cmd_wait_ack, alone or at the end of cmd_msg, succeeds
\* only on the Ack whose code is the expected_ack of the message waited for.
C25_OnlyExpectedAck ==
    (calc.op = "ack" /\ calc.pcm = "returned" /\ calc.result = "Ok") =>
        calc.acked = calc.expected

\* C26: the state lock and the client lock are never held by the same task at
\* the same time, so neither task ever waits for one of them while holding the
\* other.
C26_LocksNeverNested ==
    /\ \A t \in Tasks : ~(stateLock = t /\ clientLock = t)
    /\ ~(stateLock = "fg" /\ pc["fg"] \in DevicePcs \cup {"to_resolve", "msg_resolve",
                                                         "login_resolve", "wait_sub"})

C26_Witness ==
    /\ stateLock = "fg"
    /\ clientLock = "free"
    /\ pc["bg"] = "bg_lookup"
    /\ fg.cmd = "add_pending"

\* C27 (as claimed): in the REPL a word that forward_command executes is
\* executed as that command whether or not a contact is selected, and is never
\* sent to the current contact as a message.
C27_CommandsSameInContact ==
    (calc.op = "line" /\ calc.done /\ calc.front = "repl"
        /\ forward_command(calc.word).outcome = "handled") =>
       /\ calc.outcome = "handled"
       /\ calc.device_call = forward_command(calc.word).device_call

\* C28 (as claimed): the sub-command apply_to invokes for a matched contact
\* acts on that very contact (the one with its public key), in every
\* directory and after earlier removals.
C28_ActsOnMatched ==
    calc.op = "target" =>
        \A n \in 1..Len(calc.acted) : calc.acted[n].hit = calc.acted[n].on

\* C29 (as claimed): last_sender is unset or the resolved sender name of a
\* contact message the device delivered; sending a message leaves it alone.
C29_LastSenderReceived ==
    \/ state.last_sender = None
    \/ \E i \in 1..Len(produced) :
          /\ produced[i].kind = "ContactMessage"
          /\ state.last_sender \in lookup_sender_name(produced[i].arg)

\* C30 (as claimed): flood_scope is the scope of the most recent successful
\* device scope call (None after a clear or before any call); a failed call
\* and every other command, `to <name>%<scope>` included, leave it unchanged.
C30_ScopeReflectsDevice ==
    calc.op = "scope" => state.flood_scope = calc.device

\* cmd_scope on its own keeps the state in step with the device
C30_ScopeCommandInStep ==
    [][ (calc.op = "scope" /\ calc'.last = "scope") =>
           IF calc'.ret = "Ok"
           THEN state'.flood_scope = calc'.device
           ELSE state' = state /\ calc'.device = calc.device ]_vars

====
